---------------------------- MODULE Spec2Model ----------------------------
(***************************************************************************)
(* Model of compiler/optimizing/code_generator_vector_arm64_sve.cc: the    *)
(* location planner (LocationsBuilderARM64Sve) and the instruction emitter *)
(* (InstructionCodeGeneratorARM64Sve) for the vector IR nodes, together    *)
(* with the 128-bit register semantics of the instructions they emit.      *)
(*                                                                         *)
(* A vector register is a sequence of 16 bytes, least significant byte of  *)
(* lane 0 first.  Lanes of 2, 4 and 8 bytes are little-endian byte         *)
(* sequences, and lane arithmetic is carried out byte by byte, so that     *)
(* 32- and 64-bit lanes wrap exactly as the hardware does.                 *)
(***************************************************************************)
EXTENDS Integers, Sequences, FiniteSets, TLC

\* ------------------------------------------------------------------------
\* Bounds of the model (not program constants).

\* How many of the probe byte values (ByteAt) the operand vectors draw from.
NumByteVals == 3

\* How many of the probe byte values the accumulator operand draws from.
NumAccVals == 2

\* Largest element index of a vector load.
MaxIndex == 1

\* How many memory images (MemByte seeds) a vector load is run against.
NumMemSeeds == 2

\* How many byte values the operand lanes of the two-operand arithmetic nodes
\* are built from.
NumLaneVals == 5

\* ------------------------------------------------------------------------
\* Program constants.

\* The SIMD register width in bytes (kQRegSizeInBytes).
kQRegSizeInBytes == 16

\* static constexpr bool kArm64EmitDotProdInstructions = false;
kArm64EmitDotProdInstructions == FALSE

\* mirror::kUseStringCompression
kUseStringCompression == TRUE

\* mirror::String::CountOffset() and mirror::String::ValueOffset()
CountOffset == 8
ValueOffset == 16

\* ------------------------------------------------------------------------
\* DataType::Type and DataType::Size.

IntTypes == {"Bool", "Uint8", "Int8", "Uint16", "Int16", "Uint32", "Int32",
             "Uint64", "Int64"}

PackedTypes == IntTypes \cup {"Float32", "Float64", "Void"}

Size(t) ==
  CASE t \in {"Bool", "Uint8", "Int8"} -> 1
    [] t \in {"Uint16", "Int16"} -> 2
    [] t \in {"Uint32", "Int32", "Float32"} -> 4
    [] t \in {"Uint64", "Int64", "Float64"} -> 8
    [] OTHER -> 0

\* HVecOperation::ToSignedType
ToSignedType(t) ==
  CASE t \in {"Bool", "Uint8"} -> "Int8"
    [] t = "Uint16" -> "Int16"
    [] t = "Uint32" -> "Int32"
    [] t = "Uint64" -> "Int64"
    [] OTHER -> t

\* The lane count a 128-bit vector of packed type t has.
VecLen(t) == IF Size(t) = 0 THEN 0 ELSE kQRegSizeInBytes \div Size(t)

\* ------------------------------------------------------------------------
\* Byte-sequence arithmetic: a lane of n bytes is a little-endian sequence.

Zeros(n) == [i \in 1..n |-> 0]

RECURSIVE AddC(_, _, _)
\* x + y + c modulo 2^(8 * Len(x)), for byte sequences of equal length.
AddC(x, y, c) ==
  IF x = <<>> THEN <<>>
  ELSE LET s == Head(x) + Head(y) + c
       IN  <<s % 256>> \o AddC(Tail(x), Tail(y), s \div 256)

AddB(x, y) == AddC(x, y, 0)

NotB(x) == [i \in 1..Len(x) |-> 255 - x[i]]

SubB(x, y) == AddC(x, NotB(y), 1)

NegB(x) == AddC(NotB(x), Zeros(Len(x)), 1)

IsNegB(x) == x[Len(x)] >= 128

\* Two's complement absolute value at the width of x: Abs of the most
\* negative value is that value again.
AbsB(x) == IF IsNegB(x) THEN NegB(x) ELSE x

\* Sign and zero extension of x to n bytes.
SExt(x, n) == [i \in 1..n |-> IF i <= Len(x) THEN x[i]
                               ELSE IF IsNegB(x) THEN 255 ELSE 0]

ZExt(x, n) == [i \in 1..n |-> IF i <= Len(x) THEN x[i] ELSE 0]

Ext(signed, x, n) == IF signed THEN SExt(x, n) ELSE ZExt(x, n)

RECURSIVE ToNat(_)
\* The unsigned value of a byte sequence (of at most 3 bytes).
ToNat(x) == IF x = <<>> THEN 0 ELSE Head(x) + 256 * ToNat(Tail(x))

\* The signed value of a byte sequence (of at most 3 bytes).
ToInt(x) == IF IsNegB(x) THEN 0 - ToNat(NegB(x)) ELSE ToNat(x)

RECURSIVE FromNat(_, _)
\* The n low bytes of the natural number v.
FromNat(v, n) == IF n = 0 THEN <<>> ELSE <<v % 256>> \o FromNat(v \div 256, n - 1)

\* The n-byte two's complement encoding of the integer v.
FromInt(v, n) == IF v < 0 THEN NegB(FromNat(0 - v, n)) ELSE FromNat(v, n)

RECURSIVE XorBits(_, _, _)
XorBits(a, b, n) ==
  IF n = 0 THEN 0
  ELSE ((a + b) % 2) + 2 * XorBits(a \div 2, b \div 2, n - 1)

\* ------------------------------------------------------------------------
\* Lanes of a 16-byte vector register.

Lane(v, es, i) == SubSeq(v, i * es + 1, (i + 1) * es)

\* The vector whose lane i (of es bytes) is lanes[i].
FromLanes(es, lanes) ==
  [j \in 1..kQRegSizeInBytes |-> lanes[(j - 1) \div es][((j - 1) % es) + 1]]

LaneIdx(es) == 0 .. (kQRegSizeInBytes \div es) - 1

\* The low (hi = FALSE) or high (hi = TRUE) 8 bytes of v, as lanes of es bytes.
HalfLane(v, es, hi, i) ==
  Lane(v, es, IF hi THEN i + (kQRegSizeInBytes \div (2 * es)) ELSE i)


\* ------------------------------------------------------------------------
\* The machine instructions the emitter asks the assembler for.  An
\* instruction is a record: op is the mnemonic, es the element size in
\* bytes of the (narrow) source arrangement, rd, rn, rm register numbers,
\* imm an immediate and lbl a label.

Ins(op, es, rd, rn, rm, imm) ==
  [op |-> op, es |-> es, rd |-> rd, rn |-> rn, rm |-> rm, imm |-> imm, lbl |-> ""]

Br(op, rn, imm, lbl) ==
  [op |-> op, es |-> 0, rd |-> 0, rn |-> rn, rm |-> 0, imm |-> imm, lbl |-> lbl]

\* Movi(vd.<T>, imm): every lane of es bytes is set to imm.
Movi(es, imm) == FromLanes(es, [i \in LaneIdx(es) |-> FromNat(imm, es)])

\* Eor(vd.16B, vn.16B, vm.16B)
Eor(n, m) == [j \in 1..kQRegSizeInBytes |-> XorBits(n[j], m[j], 8)]

\* Not(vd.16B, vn.16B)
Not(n) == NotB(n)

\* Add / Sub / Abs on lanes of es bytes.
Add(es, n, m) == FromLanes(es, [i \in LaneIdx(es) |-> AddB(Lane(n, es, i), Lane(m, es, i))])

Sub(es, n, m) == FromLanes(es, [i \in LaneIdx(es) |-> SubB(Lane(n, es, i), Lane(m, es, i))])

Abs(es, n) == FromLanes(es, [i \in LaneIdx(es) |-> AbsB(Lane(n, es, i))])

\* Sxtl / Sxtl2 / Uxtl: the low (high) half's lanes of es bytes, extended to
\* lanes of 2 * es bytes.
Xtl(signed, es, hi, n) ==
  FromLanes(2 * es,
            [i \in LaneIdx(2 * es) |-> Ext(signed, HalfLane(n, es, hi, i), 2 * es)])

\* |a - b| of two signed lanes of es bytes, exact, in 2 * es bytes.
SAbd(a, b) == AbsB(SubB(SExt(a, 2 * Len(a)), SExt(b, 2 * Len(b))))

\* Sabal / Sabal2: signed absolute difference of the low (high) half's lanes
\* of es bytes, accumulated into lanes of 2 * es bytes.
Sabal(es, hi, d, n, m) ==
  FromLanes(2 * es,
            [i \in LaneIdx(2 * es) |->
               AddB(Lane(d, 2 * es, i),
                    SAbd(HalfLane(n, es, hi, i), HalfLane(m, es, hi, i)))])

\* The value of a narrow lane under the instruction's signedness.
Val(signed, x) == IF signed THEN ToInt(x) ELSE ToNat(x)

\* Umull / Umull2 / Smull / Smull2 on byte lanes: the products of the low
\* (high) 8 byte lanes, in 16-bit lanes.
Mull8(signed, hi, n, m) ==
  FromLanes(2,
            [i \in LaneIdx(2) |->
               FromInt(Val(signed, HalfLane(n, 1, hi, i)) * Val(signed, HalfLane(m, 1, hi, i)),
                       2)])

\* A variant of Addw that sign-extends whatever the mnemonic.
AddwSignExtending(signed, es, hi, n, m) ==
  FromLanes(2 * es,
            [i \in LaneIdx(2 * es) |->
               AddB(Lane(n, 2 * es, i), SExt(HalfLane(m, es, hi, i), 2 * es))])

\* Uaddw / Uaddw2 / Saddw / Saddw2: the low (high) half's lanes of es bytes
\* of m, extended and added to the lanes of 2 * es bytes of n.
Addw(signed, es, hi, n, m) ==
  FromLanes(2 * es,
            [i \in LaneIdx(2 * es) |->
               AddB(Lane(n, 2 * es, i), Ext(signed, HalfLane(m, es, hi, i), 2 * es))])

\* Udot / Sdot: each 32-bit lane i accumulates the four byte products of
\* byte lanes 4i .. 4i+3.
Dot(signed, d, n, m) ==
  FromLanes(4,
            [i \in LaneIdx(4) |->
               LET P(k) == Val(signed, Lane(n, 1, 4 * i + k)) * Val(signed, Lane(m, 1, 4 * i + k))
               IN  AddB(Lane(d, 4, i), FromInt(P(0) + P(1) + P(2) + P(3), 4))])

\* Uqadd / Sqadd (sub FALSE) and Uqsub / Sqsub (sub TRUE) on lanes of es
\* bytes: the wrapped result, replaced by the bound of the lane's range when
\* the operation carried out of (unsigned) or overflowed (signed) the lane.
QAddSub(signed, sub, es, n, m) ==
  FromLanes(es,
            [i \in LaneIdx(es) |->
               LET a == Lane(n, es, i)
                   b == Lane(m, es, i)
                   w == IF sub THEN SubB(a, b) ELSE AddB(a, b)
                   \* the lane with every bit set, the largest and the
                   \* smallest signed lane
                   OnesB == [j \in 1..es |-> 255]
                   MaxSB == [j \in 1..es |-> IF j = es THEN 127 ELSE 255]
                   MinSB == [j \in 1..es |-> IF j = es THEN 128 ELSE 0]
                   carry == IF sub THEN ToNat(a) < ToNat(b) ELSE ToNat(w) < ToNat(a)
                   overflow == /\ IsNegB(w) # IsNegB(a)
                               /\ IF sub THEN IsNegB(a) # IsNegB(b)
                                  ELSE IsNegB(a) = IsNegB(b)
               IN  IF signed
                   THEN IF overflow THEN (IF IsNegB(a) THEN MinSB ELSE MaxSB) ELSE w
                   ELSE IF carry THEN (IF sub THEN Zeros(es) ELSE OnesB) ELSE w])

\* Uhadd / Shadd (rounded FALSE) and Urhadd / Srhadd (rounded TRUE) on lanes
\* of es bytes: each operand is halved on its own, and the bit the two
\* halvings dropped is added back when both (rounded: either) dropped one.
HAdd(signed, rounded, es, n, m) ==
  FromLanes(es,
            [i \in LaneIdx(es) |->
               LET a == Val(signed, Lane(n, es, i))
                   b == Val(signed, Lane(m, es, i))
                   dropped == (a % 2) + (b % 2)
                   back == IF dropped = 2 \/ (rounded /\ dropped = 1) THEN 1 ELSE 0
               IN  FromInt((a \div 2) + (b \div 2) + back, es)])

\* Bit b of the lane x.
BitOf(x, b) == (x[(b \div 8) + 1] \div (2 ^ (b % 8))) % 2

\* Shl / Sshr / Ushr (vd.<T>, vn.<T>, #imm) on lanes of es bytes: every bit
\* moves imm places up (Shl) or down; the places left empty take 0, or the
\* sign bit for Sshr.
ShiftImm(op, es, n, imm) ==
  FromLanes(es,
            [i \in LaneIdx(es) |->
               LET x == Lane(n, es, i)
                   w == 8 * es
                   NewBit(b) ==
                     CASE op = "Shl" -> IF b >= imm THEN BitOf(x, b - imm) ELSE 0
                       [] op = "Ushr" -> IF b + imm < w THEN BitOf(x, b + imm) ELSE 0
                       [] OTHER -> IF b + imm < w THEN BitOf(x, b + imm) ELSE BitOf(x, w - 1)
               IN  [j \in 1..es |->
                      NewBit(8 * j - 8) + 2 * NewBit(8 * j - 7) + 4 * NewBit(8 * j - 6)
                      + 8 * NewBit(8 * j - 5) + 16 * NewBit(8 * j - 4)
                      + 32 * NewBit(8 * j - 3) + 64 * NewBit(8 * j - 2)
                      + 128 * NewBit(8 * j - 1)]])

\* The immediates the assembler can encode: 0 .. w - 1 for Shl, 1 .. w for
\* Sshr and Ushr, w the lane width in bits.
ShiftEncodable(ins) ==
  IF ins.op = "Shl" THEN 0 <= ins.imm /\ ins.imm < 8 * ins.es
  ELSE 1 <= ins.imm /\ ins.imm <= 8 * ins.es

RECURSIVE LtB(_, _, _)
\* x < y as lanes of the same width, signed or unsigned: decided by the
\* most significant byte that differs.
LtB(signed, x, y) ==
  IF x = <<>> THEN FALSE
  ELSE LET n == Len(x)
       IN  IF signed /\ IsNegB(x) # IsNegB(y) THEN IsNegB(x)
           ELSE IF x[n] # y[n] THEN x[n] < y[n]
           ELSE LtB(FALSE, SubSeq(x, 1, n - 1), SubSeq(y, 1, n - 1))

RECURSIVE AcrossLanes(_, _, _, _)
\* Lanes 0 .. k of n folded with op: "Addv" / "Addp" add, "Sminv" keeps the
\* smaller and "Smaxv" the larger signed lane.
AcrossLanes(op, es, n, k) ==
  IF k = 0 THEN Lane(n, es, 0)
  ELSE LET r == AcrossLanes(op, es, n, k - 1)
           x == Lane(n, es, k)
       IN  CASE op = "Sminv" -> IF LtB(TRUE, x, r) THEN x ELSE r
             [] op = "Smaxv" -> IF LtB(TRUE, r, x) THEN x ELSE r
             [] OTHER -> AddB(r, x)

\* Addv / Sminv / Smaxv (Sd, Vn.4S) and Addp (Dd, Vn.2D): the lanes of n
\* reduced into the scalar register, whose write clears the rest of vd.
ReduceAcross(op, es, n) ==
  ZExt(AcrossLanes(op, es, n, (kQRegSizeInBytes \div es) - 1), kQRegSizeInBytes)

\* Umin / Smin / Umax / Smax on lanes of es bytes.
IntMinMax(signed, max, es, n, m) ==
  FromLanes(es,
            [i \in LaneIdx(es) |->
               LET a == Lane(n, es, i)
                   b == Lane(m, es, i)
               IN  IF max THEN (IF LtB(signed, a, b) THEN b ELSE a)
                   ELSE (IF LtB(signed, b, a) THEN b ELSE a)])

\* The number of fraction bits of a floating point lane of es bytes.
FracBits(es) == IF es = 4 THEN 23 ELSE 52

\* The lane is a NaN: exponent all ones, fraction not zero.
IsNaN(x) ==
  /\ \A b \in FracBits(Len(x)) .. 8 * Len(x) - 2 : BitOf(x, b) = 1
  /\ \E b \in 0 .. FracBits(Len(x)) - 1 : BitOf(x, b) = 1

\* Fmin / Fmax on floating point lanes of es bytes.  A NaN operand gives that
\* NaN, quietened (a signalling one first, then the first operand); otherwise
\* the operands are compared as sign and magnitude, -0 below +0: a lane with
\* the sign bit clear is keyed by itself with the sign bit set, one with the
\* sign bit set by its complement, and the keys compare unsigned.
FMinMax(max, es, n, m) ==
  FromLanes(es,
            [i \in LaneIdx(es) |->
               LET a == Lane(n, es, i)
                   b == Lane(m, es, i)
                   q == FracBits(es) - 1
                   Signalling(x) == IsNaN(x) /\ BitOf(x, q) = 0
                   Quiet(x) == [j \in 1..es |->
                                  IF j = (q \div 8) + 1 /\ BitOf(x, q) = 0
                                  THEN x[j] + 2 ^ (q % 8) ELSE x[j]]
                   Key(x) == IF IsNegB(x) THEN NotB(x)
                             ELSE [j \in 1..es |-> IF j = es THEN x[j] + 128 ELSE x[j]]
               IN  CASE Signalling(a) -> Quiet(a)
                     [] Signalling(b) -> Quiet(b)
                     [] IsNaN(a) -> a
                     [] IsNaN(b) -> b
                     [] OTHER ->
                          IF max THEN (IF LtB(FALSE, Key(a), Key(b)) THEN b ELSE a)
                          ELSE (IF LtB(FALSE, Key(b), Key(a)) THEN b ELSE a)])

RECURSIVE MulByte(_, _, _)
\* x times the byte k plus the carry c, at the width of x.
MulByte(x, k, c) ==
  IF x = <<>> THEN <<>>
  ELSE LET p == Head(x) * k + c
       IN  <<p % 256>> \o MulByte(Tail(x), k, p \div 256)

RECURSIVE MulB(_, _)
\* The product of two lanes modulo 2^w: one row per byte of y, each row
\* one byte shorter and one byte further left.
MulB(x, y) ==
  IF y = <<>> THEN <<>>
  ELSE AddB(MulByte(x, Head(y), 0),
            <<0>> \o MulB(SubSeq(x, 1, Len(x) - 1), Tail(y)))

\* Mla (sub FALSE) / Mls (sub TRUE) on lanes of es bytes: the product of the
\* lanes of n and m is added to (subtracted from) the lane of d.
\* A variant of Mlal whose second-half forms read the low half again.
MlalLowTwice(signed, hi, d, n, m) ==
  FromLanes(4,
            [i \in LaneIdx(4) |->
               AddB(Lane(d, 4, i),
                    MulB(Ext(signed, Lane(n, 2, i), 4), Ext(signed, Lane(m, 2, i), 4)))])

\* Umlal / Umlal2 / Smlal / Smlal2 on 16-bit lanes: the low (high) four lanes
\* of n and m, extended to 32 bits and multiplied, are added to the 32-bit
\* lanes of d.
Mlal(signed, hi, d, n, m) ==
  FromLanes(4,
            [i \in LaneIdx(4) |->
               AddB(Lane(d, 4, i),
                    MulB(Ext(signed, HalfLane(n, 2, hi, i), 4),
                         Ext(signed, HalfLane(m, 2, hi, i), 4)))])

Mla(sub, es, d, n, m) ==
  FromLanes(es,
            [i \in LaneIdx(es) |->
               LET p == MulB(Lane(n, es, i), Lane(m, es, i))
               IN  IF sub THEN SubB(Lane(d, es, i), p) ELSE AddB(Lane(d, es, i), p)])

\* The mnemonics whose effect on the registers the model computes.
VecOps == {"Movi", "Eor", "Not", "Add", "Sub", "Abs", "Sxtl", "Sxtl2", "Uxtl",
           "Sabal", "Sabal2", "Umull", "Umull2", "Smull", "Smull2",
           "Uaddw", "Uaddw2", "Saddw", "Saddw2", "Udot", "Sdot",
           "Uqadd", "Sqadd", "Uqsub", "Sqsub", "Uhadd", "Shadd", "Urhadd", "Srhadd",
           "Mla", "Mls", "Addv", "Sminv", "Smaxv", "Addp", "Shl", "Sshr", "Ushr",
           "Umin", "Smin", "Umax", "Smax", "Fmin", "Fmax",
           "Umlal", "Umlal2", "Smlal", "Smlal2"}

\* The value a vector instruction leaves in its destination register rd,
\* given the register file V.
VecResult(ins, V) ==
  LET d == V[ins.rd]
      n == V[ins.rn]
      m == V[ins.rm]
      es == ins.es
  IN  CASE ins.op = "Movi" -> Movi(es, ins.imm)
        [] ins.op = "Eor" -> Eor(n, m)
        [] ins.op = "Not" -> Not(n)
        [] ins.op = "Add" -> Add(es, n, m)
        [] ins.op = "Sub" -> Sub(es, n, m)
        [] ins.op = "Abs" -> Abs(es, n)
        [] ins.op = "Sxtl" -> Xtl(TRUE, es, FALSE, n)
        [] ins.op = "Sxtl2" -> Xtl(TRUE, es, TRUE, n)
        [] ins.op = "Uxtl" -> Xtl(FALSE, es, FALSE, n)
        [] ins.op = "Sabal" -> Sabal(es, FALSE, d, n, m)
        [] ins.op = "Sabal2" -> Sabal(es, TRUE, d, n, m)
        [] ins.op = "Umull" -> Mull8(FALSE, FALSE, n, m)
        [] ins.op = "Umull2" -> Mull8(FALSE, TRUE, n, m)
        [] ins.op = "Smull" -> Mull8(TRUE, FALSE, n, m)
        [] ins.op = "Smull2" -> Mull8(TRUE, TRUE, n, m)
        [] ins.op = "Uaddw" -> Addw(FALSE, es, FALSE, n, m)
        [] ins.op = "Uaddw2" -> Addw(FALSE, es, TRUE, n, m)
        [] ins.op = "Saddw" -> Addw(TRUE, es, FALSE, n, m)
        [] ins.op = "Saddw2" -> Addw(TRUE, es, TRUE, n, m)
        [] ins.op = "Udot" -> Dot(FALSE, d, n, m)
        [] ins.op = "Sdot" -> Dot(TRUE, d, n, m)
        [] ins.op = "Uqadd" -> QAddSub(FALSE, FALSE, es, n, m)
        [] ins.op = "Sqadd" -> QAddSub(TRUE, FALSE, es, n, m)
        [] ins.op = "Uqsub" -> QAddSub(FALSE, TRUE, es, n, m)
        [] ins.op = "Sqsub" -> QAddSub(TRUE, TRUE, es, n, m)
        [] ins.op = "Uhadd" -> HAdd(FALSE, FALSE, es, n, m)
        [] ins.op = "Shadd" -> HAdd(TRUE, FALSE, es, n, m)
        [] ins.op = "Urhadd" -> HAdd(FALSE, TRUE, es, n, m)
        [] ins.op = "Srhadd" -> HAdd(TRUE, TRUE, es, n, m)
        [] ins.op = "Mla" -> Mla(FALSE, es, d, n, m)
        [] ins.op = "Mls" -> Mla(TRUE, es, d, n, m)
        [] ins.op \in {"Addv", "Sminv", "Smaxv", "Addp"} -> ReduceAcross(ins.op, es, n)
        [] ins.op \in {"Shl", "Sshr", "Ushr"} -> ShiftImm(ins.op, es, n, ins.imm)
        [] ins.op \in {"Umin", "Smin", "Umax", "Smax"} ->
             IntMinMax(ins.op \in {"Smin", "Smax"}, ins.op \in {"Umax", "Smax"}, es, n, m)
        [] ins.op \in {"Fmin", "Fmax"} -> FMinMax(ins.op = "Fmax", es, n, m)
        [] ins.op \in {"Umlal", "Umlal2", "Smlal", "Smlal2"} ->
             Mlal(ins.op \in {"Smlal", "Smlal2"}, ins.op \in {"Umlal2", "Smlal2"}, d, n, m)
        [] OTHER -> d

\* ------------------------------------------------------------------------
\* The location planner.  A LocationSummary is a record: valid is FALSE when
\* the planner ended in LOG(FATAL); in is the sequence of the input slots'
\* constraints, out the output slot's, overlap the OutputOverlap argument of
\* SetOut (TRUE: kOutputOverlap, the output may not share a register with an
\* input, which is also SetOut's default; FALSE: kNoOutputOverlap), temps
\* the number of AddTemp(RequiresFpuRegister()) calls.

FpuReg == "RequiresFpuRegister"
GpReg == "RequiresRegister"
ConstLoc == "ConstantLocation"
SameAsFirst == "SameAsFirstInput"
Unset == "Invalid"

FatalSummary == [valid |-> FALSE, in |-> <<>>, out |-> Unset, overlap |-> TRUE, temps |-> 0]

Summary(in, out, overlap) ==
  [valid |-> TRUE, in |-> in, out |-> out, overlap |-> overlap, temps |-> 0]

AddTemps(locations, k) == [locations EXCEPT !.temps = @ + k]

\* Returns whether dot product instructions should be emitted.  cg is the
\* code generator: its build-time switch and its instruction set features.
\* A variant of ShouldEmitDotProductInstructions that consults the target
\* only.
ShouldEmitDotProductInstructionsTargetOnly(cg) == cg.hasDotProd

ShouldEmitDotProductInstructions(cg) == cg.emitDotProd /\ cg.hasDotProd

\* helpers::ARM64EncodableConstantOrRegister
ARM64EncodableConstantOrRegister(n) ==
  IF n.in0Const /\ n.in0Enc THEN ConstLoc ELSE GpReg

\* Location::RegisterOrConstant
RegisterOrConstant(isConst) == IF isConst THEN ConstLoc ELSE GpReg

LocationsBuilder_VisitVecReplicateScalar(n) ==
  CASE n.packed \in {"Bool", "Uint8", "Int8", "Uint16", "Int16", "Int32", "Int64"} ->
         Summary(<<ARM64EncodableConstantOrRegister(n)>>, FpuReg, TRUE)
    [] n.packed \in {"Float32", "Float64"} ->
         IF n.in0Const /\ n.in0Enc
         THEN Summary(<<ConstLoc>>, FpuReg, TRUE)
         ELSE Summary(<<FpuReg>>, FpuReg, FALSE)
    [] OTHER -> FatalSummary

LocationsBuilder_VisitVecExtractScalar(n) ==
  CASE n.packed \in {"Bool", "Uint8", "Int8", "Uint16", "Int16", "Int32", "Int64"} ->
         Summary(<<FpuReg>>, GpReg, TRUE)
    [] n.packed \in {"Float32", "Float64"} ->
         Summary(<<FpuReg>>, SameAsFirst, TRUE)
    [] OTHER -> FatalSummary

\* A variant of CreateVecUnOpLocations that declares kNoOutputOverlap for
\* every boolean unary operation, the logical not included.
CreateVecUnOpLocationsNoOverlap(n) ==
  CASE n.packed \in {"Bool", "Uint8", "Int8", "Uint16", "Int16", "Int32", "Int64",
                     "Float32", "Float64"} ->
         Summary(<<FpuReg>>, FpuReg, FALSE)
    [] OTHER -> FatalSummary

\* Helper to set up locations for vector unary operations.
CreateVecUnOpLocations(n) ==
  CASE n.packed = "Bool" ->
         Summary(<<FpuReg>>, FpuReg, n.kind = "VecNot")
    [] n.packed \in {"Uint8", "Int8", "Uint16", "Int16", "Int32", "Int64",
                     "Float32", "Float64"} ->
         Summary(<<FpuReg>>, FpuReg, FALSE)
    [] OTHER -> FatalSummary

\* Helper to set up locations for vector binary operations.
CreateVecBinOpLocations(n) ==
  CASE n.packed \in {"Bool", "Uint8", "Int8", "Uint16", "Int16", "Int32", "Int64",
                     "Float32", "Float64"} ->
         Summary(<<FpuReg, FpuReg>>, FpuReg, FALSE)
    [] OTHER -> FatalSummary

\* Helper to set up locations for vector shift operations.
CreateVecShiftLocations(n) ==
  CASE n.packed \in {"Uint8", "Int8", "Uint16", "Int16", "Int32", "Int64"} ->
         Summary(<<FpuReg, ConstLoc>>, FpuReg, FALSE)
    [] OTHER -> FatalSummary

LocationsBuilder_VisitVecSetScalars(n) ==
  CASE n.packed \in {"Bool", "Uint8", "Int8", "Uint16", "Int16", "Int32", "Int64"} ->
         Summary(<<IF n.in0Zero THEN ConstLoc ELSE GpReg>>, FpuReg, TRUE)
    [] n.packed \in {"Float32", "Float64"} ->
         Summary(<<IF n.in0Zero THEN ConstLoc ELSE FpuReg>>, FpuReg, TRUE)
    [] OTHER -> FatalSummary

\* A variant of CreateVecAccumLocations whose output is a register of its
\* own rather than the first input's.
CreateVecAccumLocationsOwnOut(n) ==
  CASE n.packed \in {"Uint8", "Int8", "Uint16", "Int16", "Int32", "Int64"} ->
         Summary(<<FpuReg, FpuReg, FpuReg>>, FpuReg, TRUE)
    [] OTHER -> FatalSummary

\* Helper to set up locations for vector accumulations.
CreateVecAccumLocations(n) ==
  CASE n.packed \in {"Uint8", "Int8", "Uint16", "Int16", "Int32", "Int64"} ->
         Summary(<<FpuReg, FpuReg, FpuReg>>, SameAsFirst, TRUE)
    [] OTHER -> FatalSummary

\* A variant of SADTemps without the fall through from the Int64 case into
\* the Int32 case.
SADTempsNoFallThrough(a, t) ==
  CASE a \in {"Uint8", "Int8"} -> (IF t \in {"Int32", "Int64"} THEN 2 ELSE 0)
    [] a \in {"Uint16", "Int16"} -> (IF t = "Int64" THEN 2 ELSE 0)
    [] a \in {"Int32", "Int64"} -> (IF t = a THEN 1 ELSE 0)
    [] OTHER -> 0

\* A variant of SADTemps that adds a pair of temporaries in the same-width
\* case.
SADTempsPairSameWidth(a, t) ==
  CASE a \in {"Uint8", "Int8"} ->
         (CASE t = "Int64" -> 4
            [] t = "Int32" -> 2
            [] OTHER -> 0)
    [] a \in {"Uint16", "Int16"} -> (IF t = "Int64" THEN 2 ELSE 0)
    [] a \in {"Int32", "Int64"} -> (IF t = a THEN 2 ELSE 0)
    [] OTHER -> 0

\* The temporaries VisitVecSADAccumulate adds after CreateVecAccumLocations:
\* a is the packed type of input 1, t the packed type of the node.
SADTemps(a, t) ==
  CASE a \in {"Uint8", "Int8"} ->
         (CASE t = "Int64" -> 4
            [] t = "Int32" -> 2
            [] OTHER -> 0)
    [] a \in {"Uint16", "Int16"} -> (IF t = "Int64" THEN 2 ELSE 0)
    [] a \in {"Int32", "Int64"} -> (IF t = a THEN 1 ELSE 0)
    [] OTHER -> 0

LocationsBuilder_VisitVecSADAccumulate(n) ==
  LET locations == CreateVecAccumLocations(n)
  IN  IF ~locations.valid THEN locations
      ELSE AddTemps(locations, SADTemps(n.aType, n.packed))

LocationsBuilder_VisitVecDotProd(n, cg) ==
  LET locations == Summary(<<FpuReg, FpuReg, FpuReg>>, SameAsFirst, TRUE)
  IN  IF Size(n.aType) = 1 /\ ~ShouldEmitDotProductInstructions(cg)
      THEN AddTemps(locations, 1)
      ELSE locations

\* Helper to set up locations for vector memory operations.
CreateVecMemLocations(n, is_load) ==
  CASE n.packed \in {"Bool", "Uint8", "Int8", "Uint16", "Int16", "Int32", "Int64",
                     "Float32", "Float64"} ->
         IF is_load
         THEN Summary(<<GpReg, RegisterOrConstant(n.in1Const)>>, FpuReg, TRUE)
         ELSE Summary(<<GpReg, RegisterOrConstant(n.in1Const), FpuReg>>, Unset, TRUE)
    [] OTHER -> FatalSummary

UnOpKinds == {"VecReduce", "VecCnv", "VecNeg", "VecAbs", "VecNot"}

BinOpKinds == {"VecAdd", "VecSaturationAdd", "VecHalvingAdd", "VecSub",
               "VecSaturationSub", "VecMul", "VecDiv", "VecMin", "VecMax",
               "VecAnd", "VecOr", "VecXor"}

ShiftKinds == {"VecShl", "VecShr", "VecUShr"}

UnsupportedKinds == {"VecAndNot", "VecPredSetAll", "VecPredWhile", "VecPredCondition"}

Kinds == {"VecReplicateScalar", "VecExtractScalar", "VecSetScalars",
          "VecMultiplyAccumulate", "VecSADAccumulate", "VecDotProd",
          "VecLoad", "VecStore"}
         \cup UnOpKinds \cup BinOpKinds \cup ShiftKinds \cup UnsupportedKinds

\* A variant of the planner with VisitVecAndNot implemented on the binary
\* operation template.
LocationsBuilder_VisitWithAndNot(n, cg) ==
  CASE n.kind = "VecReplicateScalar" -> LocationsBuilder_VisitVecReplicateScalar(n)
    [] n.kind = "VecExtractScalar" -> LocationsBuilder_VisitVecExtractScalar(n)
    [] n.kind \in UnOpKinds -> CreateVecUnOpLocations(n)
    [] n.kind \in BinOpKinds \cup {"VecAndNot"} -> CreateVecBinOpLocations(n)
    [] n.kind \in ShiftKinds -> CreateVecShiftLocations(n)
    [] n.kind = "VecSetScalars" -> LocationsBuilder_VisitVecSetScalars(n)
    [] n.kind = "VecMultiplyAccumulate" -> CreateVecAccumLocations(n)
    [] n.kind = "VecSADAccumulate" -> LocationsBuilder_VisitVecSADAccumulate(n)
    [] n.kind = "VecDotProd" -> LocationsBuilder_VisitVecDotProd(n, cg)
    [] n.kind = "VecLoad" -> CreateVecMemLocations(n, TRUE)
    [] n.kind = "VecStore" -> CreateVecMemLocations(n, FALSE)
    [] OTHER -> FatalSummary

\* LocationsBuilderARM64Sve::Visit<kind>: the planner routine of node n.
LocationsBuilder_Visit(n, cg) ==
  CASE n.kind = "VecReplicateScalar" -> LocationsBuilder_VisitVecReplicateScalar(n)
    [] n.kind = "VecExtractScalar" -> LocationsBuilder_VisitVecExtractScalar(n)
    [] n.kind \in UnOpKinds -> CreateVecUnOpLocations(n)
    [] n.kind \in BinOpKinds -> CreateVecBinOpLocations(n)
    [] n.kind \in ShiftKinds -> CreateVecShiftLocations(n)
    [] n.kind = "VecSetScalars" -> LocationsBuilder_VisitVecSetScalars(n)
    [] n.kind = "VecMultiplyAccumulate" -> CreateVecAccumLocations(n)
    [] n.kind = "VecSADAccumulate" -> LocationsBuilder_VisitVecSADAccumulate(n)
    [] n.kind = "VecDotProd" -> LocationsBuilder_VisitVecDotProd(n, cg)
    [] n.kind = "VecLoad" -> CreateVecMemLocations(n, TRUE)
    [] n.kind = "VecStore" -> CreateVecMemLocations(n, FALSE)
    [] OTHER -> FatalSummary

\* ------------------------------------------------------------------------
\* The instruction emitter.  loc is the node's LocationSummary after register
\* allocation: loc.in[i + 1] and loc.out are records [k, r] (k the class of
\* the resolved operand: "V" a vector register, "X" a general-purpose
\* register, "C" a constant, "-" none; r the register number), loc.temps the
\* registers of the temporaries.
\*
\* An emitter returns a record: code is the instruction sequence handed to
\* the assembler, fatal is TRUE when the routine ended in LOG(FATAL) (code
\* then holds what was emitted before it), reads is the set of slots of the
\* LocationSummary the routine read, each with the class it was read as,
\* same is TRUE when the routine executed DCHECK(InAt(0).Equals(Out())),
\* vlOk is the conjunction of the vector length DCHECKs on the path taken,
\* vlAt the number of instructions emitted before the first of them,
\* scope the acquire / release calls on the routine's UseScratchRegisterScope,
\* each with the number of instructions emitted before it, entry and pool the
\* assembler's scratch register lists when the routine is entered and when
\* it returns.

\* The scratch registers of the assembler's pool (ip0, ip1).
ScratchPool == {16, 17}

\* The assembler's scratch vector register list (v31).
ScratchVPool == {31}

\* The assembler's scratch lists with nothing acquired.
FullPool == [x |-> ScratchPool, v |-> ScratchVPool]

RIn(i, k) == <<"in", i, k>>
ROut(k) == <<"out", 0, k>>
RTemp(i) == <<"temp", i, "V">>

Ok(code, reads, vlOk) ==
  [code |-> code, fatal |-> FALSE, reads |-> reads, same |-> FALSE, vlOk |-> vlOk,
   vlAt |-> 0, scope |-> <<>>, entry |-> FullPool, pool |-> FullPool]

Abort(code, reads) ==
  [code |-> code, fatal |-> TRUE, reads |-> reads, same |-> FALSE, vlOk |-> TRUE,
   vlAt |-> 0, scope |-> <<>>, entry |-> FullPool, pool |-> FullPool]

\* A register no slot holds: what a read of a temporary the planner never
\* added yields.
NoReg == 31

InR(loc, i) == IF i < Len(loc.in) THEN loc.in[i + 1].r ELSE NoReg
InK(loc, i) == IF i < Len(loc.in) THEN loc.in[i + 1].k ELSE "-"
GetTemp(loc, i) == IF i < Len(loc.temps) THEN loc.temps[i + 1] ELSE NoReg

\* An emitter whose switch picks one instruction dst <- op(lhs, rhs) by packed
\* type: sel is <<mnemonic, element size, vector length or 0>>, with the
\* mnemonic "" in the default (LOG(FATAL)) case.
EmitBin(n, loc, sel) ==
  LET reads == {RIn(0, "V"), RIn(1, "V"), ROut("V")}
  IN  IF sel[1] = "" THEN Abort(<<>>, reads)
      ELSE Ok(<<Ins(sel[1], sel[2], loc.out.r, InR(loc, 0), InR(loc, 1), 0)>>, reads,
              sel[3] = 0 \/ n.vlen = sel[3])

\* The same for dst <- op(src).
EmitUn(n, loc, sel) ==
  LET reads == {RIn(0, "V"), ROut("V")}
  IN  IF sel[1] = "" THEN Abort(<<>>, reads)
      ELSE Ok(<<Ins(sel[1], sel[2], loc.out.r, InR(loc, 0), InR(loc, 0), 0)>>, reads,
              sel[3] = 0 \/ n.vlen = sel[3])

\* The same for dst <- op(lhs, #value), value the constant in input 1.
EmitShift(n, loc, sel) ==
  LET reads == {RIn(0, "V"), RIn(1, "C"), ROut("V")}
  IN  IF sel[1] = "" THEN Abort(<<>>, reads)
      ELSE Ok(<<Ins(sel[1], sel[2], loc.out.r, InR(loc, 0), InR(loc, 0), n.imm)>>, reads,
              sel[3] = 0 \/ n.vlen = sel[3])

NoSel == <<"", 0, 0>>

\* A variant of IntLanes without the DCHECK_EQs on the vector length.
IntLanesUnchecked(t, op) ==
  CASE t \in {"Uint8", "Int8"} -> <<op, 1, 0>>
    [] t \in {"Uint16", "Int16"} -> <<op, 2, 0>>
    [] t = "Int32" -> <<op, 4, 0>>
    [] t = "Int64" -> <<op, 8, 0>>
    [] OTHER -> NoSel

\* The arrangement of an integer lane switch: cases {Uint8, Int8}, {Uint16,
\* Int16}, Int32, Int64, each with its DCHECK_EQ on the vector length.
IntLanes(t, op) ==
  CASE t \in {"Uint8", "Int8"} -> <<op, 1, 16>>
    [] t \in {"Uint16", "Int16"} -> <<op, 2, 8>>
    [] t = "Int32" -> <<op, 4, 4>>
    [] t = "Int64" -> <<op, 8, 2>>
    [] OTHER -> NoSel

FloatLanes(t, op) ==
  CASE t = "Float32" -> <<op, 4, 4>>
    [] t = "Float64" -> <<op, 8, 2>>
    [] OTHER -> NoSel

\* A variant of NarrowLanes that gives the unsigned types the signed
\* mnemonic.
NarrowLanesAllSigned(t, uop, sop) ==
  CASE t \in {"Uint8", "Int8"} -> <<sop, 1, 16>>
    [] t \in {"Uint16", "Int16"} -> <<sop, 2, 8>>
    [] OTHER -> NoSel

\* The cases Uint8, Int8, Uint16, Int16 with an unsigned and a signed mnemonic.
NarrowLanes(t, uop, sop) ==
  CASE t = "Uint8" -> <<uop, 1, 16>>
    [] t = "Int8" -> <<sop, 1, 16>>
    [] t = "Uint16" -> <<uop, 2, 8>>
    [] t = "Int16" -> <<sop, 2, 8>>
    [] OTHER -> NoSel

FirstSel(a, b) == IF a[1] # "" THEN a ELSE b

\* A variant of VisitVecReplicateScalar that duplicates from the register of
\* input 0 whatever the slot holds.
InstructionCodeGenerator_VisitVecReplicateScalarFromRegister(n, loc) ==
  LET top == {ROut("V")}
      Case(op, es, class) ==
        Ok(<<Ins(op, es, loc.out.r, InR(loc, 0), 0, 0)>>, top \cup {RIn(0, class)},
           n.vlen = 16 \div es)
  IN  CASE n.packed \in {"Bool", "Uint8", "Int8"} -> Case("Dup", 1, "X")
        [] n.packed \in {"Uint16", "Int16"} -> Case("Dup", 2, "X")
        [] n.packed = "Int32" -> Case("Dup", 4, "X")
        [] n.packed = "Int64" -> Case("Dup", 8, "X")
        [] n.packed = "Float32" -> Case("DupLane", 4, "V")
        [] n.packed = "Float64" -> Case("DupLane", 8, "V")
        [] OTHER -> Abort(<<>>, top)

InstructionCodeGenerator_VisitVecReplicateScalar(n, loc) ==
  LET isConst == InK(loc, 0) = "C"
      top == {ROut("V")}
      IntCase(es, class) ==
        IF isConst
        THEN Ok(<<Ins("Movi", es, loc.out.r, 0, 0, n.imm)>>, top \cup {RIn(0, "C")},
                n.vlen = 16 \div es)
        ELSE Ok(<<Ins("Dup", es, loc.out.r, InR(loc, 0), 0, 0)>>, top \cup {RIn(0, class)},
                n.vlen = 16 \div es)
      FloatCase(es) ==
        IF isConst
        THEN Ok(<<Ins("Fmov", es, loc.out.r, 0, 0, n.imm)>>, top \cup {RIn(0, "C")},
                n.vlen = 16 \div es)
        ELSE Ok(<<Ins("DupLane", es, loc.out.r, InR(loc, 0), 0, 0)>>, top \cup {RIn(0, "V")},
                n.vlen = 16 \div es)
  IN  CASE n.packed \in {"Bool", "Uint8", "Int8"} -> IntCase(1, "X")
        [] n.packed \in {"Uint16", "Int16"} -> IntCase(2, "X")
        [] n.packed = "Int32" -> IntCase(4, "X")
        [] n.packed = "Int64" -> IntCase(8, "X")
        [] n.packed = "Float32" -> FloatCase(4)
        [] n.packed = "Float64" -> FloatCase(8)
        [] OTHER -> Abort(<<>>, top)

InstructionCodeGenerator_VisitVecExtractScalar(n, loc) ==
  LET top == {RIn(0, "V")}
  IN  CASE n.packed = "Int32" ->
             Ok(<<Ins("Umov", 4, loc.out.r, InR(loc, 0), 0, 0)>>, top \cup {ROut("X")},
                n.vlen = 4)
        [] n.packed = "Int64" ->
             Ok(<<Ins("Umov", 8, loc.out.r, InR(loc, 0), 0, 0)>>, top \cup {ROut("X")},
                n.vlen = 2)
        [] n.packed \in {"Float32", "Float64"} ->
             [Ok(<<>>, top, 2 <= n.vlen /\ n.vlen <= 4) EXCEPT !.same = TRUE]
        [] OTHER -> Abort(<<>>, top)

\* A variant of VisitVecReduce with the mnemonics of kMin and kMax exchanged.
InstructionCodeGenerator_VisitVecReduceSwapped(n, loc) ==
  CASE n.packed = "Int32" ->
         EmitUn(n, loc, CASE n.reduction = "kSum" -> <<"Addv", 4, 4>>
                          [] n.reduction = "kMin" -> <<"Smaxv", 4, 4>>
                          [] n.reduction = "kMax" -> <<"Sminv", 4, 4>>)
    [] n.packed = "Int64" ->
         EmitUn(n, loc, IF n.reduction = "kSum" THEN <<"Addp", 8, 2>> ELSE NoSel)
    [] OTHER -> EmitUn(n, loc, NoSel)

InstructionCodeGenerator_VisitVecReduce(n, loc) ==
  CASE n.packed = "Int32" ->
         EmitUn(n, loc, CASE n.reduction = "kSum" -> <<"Addv", 4, 4>>
                          [] n.reduction = "kMin" -> <<"Sminv", 4, 4>>
                          [] n.reduction = "kMax" -> <<"Smaxv", 4, 4>>)
    [] n.packed = "Int64" ->
         EmitUn(n, loc, IF n.reduction = "kSum" THEN <<"Addp", 8, 2>> ELSE NoSel)
    [] OTHER -> EmitUn(n, loc, NoSel)

InstructionCodeGenerator_VisitVecCnv(n, loc) ==
  EmitUn(n, loc, IF n.aType = "Int32" /\ n.packed = "Float32"
                 THEN <<"Scvtf", 4, 4>> ELSE NoSel)

InstructionCodeGenerator_VisitVecNeg(n, loc) ==
  EmitUn(n, loc, FirstSel(IntLanes(n.packed, "Neg"), FloatLanes(n.packed, "Fneg")))

InstructionCodeGenerator_VisitVecAbs(n, loc) ==
  EmitUn(n, loc,
         CASE n.packed = "Int8" -> <<"Abs", 1, 16>>
           [] n.packed = "Int16" -> <<"Abs", 2, 8>>
           [] n.packed = "Int32" -> <<"Abs", 4, 4>>
           [] n.packed = "Int64" -> <<"Abs", 8, 2>>
           [] OTHER -> FloatLanes(n.packed, "Fabs"))

InstructionCodeGenerator_VisitVecNot(n, loc) ==
  LET reads == {RIn(0, "V"), ROut("V")}
      src == InR(loc, 0)
      dst == loc.out.r
  IN  CASE n.packed = "Bool" ->  \* special case boolean-not
             Ok(<<Ins("Movi", 1, dst, 0, 0, 1), Ins("Eor", 1, dst, dst, src, 0)>>, reads,
                n.vlen = 16)
        [] n.packed \in {"Uint8", "Int8", "Uint16", "Int16", "Int32", "Int64"} ->
             Ok(<<Ins("Not", 1, dst, src, src, 0)>>, reads, TRUE)
        [] OTHER -> Abort(<<>>, reads)

InstructionCodeGenerator_VisitVecAdd(n, loc) ==
  EmitBin(n, loc, FirstSel(IntLanes(n.packed, "Add"), FloatLanes(n.packed, "Fadd")))

InstructionCodeGenerator_VisitVecSaturationAdd(n, loc) ==
  EmitBin(n, loc, NarrowLanes(n.packed, "Uqadd", "Sqadd"))

\* A variant of VisitVecHalvingAdd that never consults IsRounded().
InstructionCodeGenerator_VisitVecHalvingAddTruncating(n, loc) ==
  EmitBin(n, loc, NarrowLanes(n.packed, "Uhadd", "Shadd"))

InstructionCodeGenerator_VisitVecHalvingAdd(n, loc) ==
  EmitBin(n, loc, IF n.rounded THEN NarrowLanes(n.packed, "Urhadd", "Srhadd")
                  ELSE NarrowLanes(n.packed, "Uhadd", "Shadd"))

InstructionCodeGenerator_VisitVecSub(n, loc) ==
  EmitBin(n, loc, FirstSel(IntLanes(n.packed, "Sub"), FloatLanes(n.packed, "Fsub")))

InstructionCodeGenerator_VisitVecSaturationSub(n, loc) ==
  EmitBin(n, loc, NarrowLanes(n.packed, "Uqsub", "Sqsub"))

InstructionCodeGenerator_VisitVecMul(n, loc) ==
  EmitBin(n, loc,
          CASE n.packed \in {"Uint8", "Int8"} -> <<"Mul", 1, 16>>
            [] n.packed \in {"Uint16", "Int16"} -> <<"Mul", 2, 8>>
            [] n.packed = "Int32" -> <<"Mul", 4, 4>>
            [] OTHER -> FloatLanes(n.packed, "Fmul"))

\* A variant of VisitVecDiv with cases for the integral lanes.
InstructionCodeGenerator_VisitVecDivIntegral(n, loc) ==
  EmitBin(n, loc, FirstSel(IntLanes(n.packed, "Sdiv"), FloatLanes(n.packed, "Fdiv")))

InstructionCodeGenerator_VisitVecDiv(n, loc) ==
  EmitBin(n, loc, FloatLanes(n.packed, "Fdiv"))

\* VisitVecMin and VisitVecMax: uop, sop, fop are Umin, Smin, Fmin or Umax,
\* Smax, Fmax.
\* A variant of MinMaxSel that compares every integer type as signed.
MinMaxSelAllSigned(t, uop, sop, fop) ==
  CASE t \in {"Uint32", "Int32"} -> <<sop, 4, 4>>
    [] t \in {"Float32", "Float64"} -> FloatLanes(t, fop)
    [] OTHER -> NarrowLanes(t, sop, sop)

MinMaxSel(t, uop, sop, fop) ==
  CASE t = "Uint32" -> <<uop, 4, 4>>
    [] t = "Int32" -> <<sop, 4, 4>>
    [] t \in {"Float32", "Float64"} -> FloatLanes(t, fop)
    [] OTHER -> NarrowLanes(t, uop, sop)

InstructionCodeGenerator_VisitVecMin(n, loc) ==
  EmitBin(n, loc, MinMaxSel(n.packed, "Umin", "Smin", "Fmin"))

InstructionCodeGenerator_VisitVecMax(n, loc) ==
  EmitBin(n, loc, MinMaxSel(n.packed, "Umax", "Smax", "Fmax"))

\* VisitVecAnd, VisitVecOr, VisitVecXor: one 16B instruction, lanes do not
\* matter, no DCHECK on the vector length.
BitwiseSel(t, op) ==
  IF t \in {"Bool", "Uint8", "Int8", "Uint16", "Int16", "Int32", "Int64",
            "Float32", "Float64"}
  THEN <<op, 1, 0>> ELSE NoSel

InstructionCodeGenerator_VisitVecAnd(n, loc) == EmitBin(n, loc, BitwiseSel(n.packed, "And"))

InstructionCodeGenerator_VisitVecOr(n, loc) == EmitBin(n, loc, BitwiseSel(n.packed, "Orr"))

InstructionCodeGenerator_VisitVecXor(n, loc) == EmitBin(n, loc, BitwiseSel(n.packed, "Eor"))

InstructionCodeGenerator_VisitVecShl(n, loc) == EmitShift(n, loc, IntLanes(n.packed, "Shl"))

\* A variant of VisitVecShr that shifts zeros in.
InstructionCodeGenerator_VisitVecShrLogical(n, loc) ==
  EmitShift(n, loc, IntLanes(n.packed, "Ushr"))

InstructionCodeGenerator_VisitVecShr(n, loc) == EmitShift(n, loc, IntLanes(n.packed, "Sshr"))

InstructionCodeGenerator_VisitVecUShr(n, loc) == EmitShift(n, loc, IntLanes(n.packed, "Ushr"))

\* A variant of VisitVecSetScalars that picks the case before it zeroes the
\* destination.
InstructionCodeGenerator_VisitVecSetScalarsSwitchFirst(n, loc) ==
  LET dst == loc.out.r
      zero == <<Ins("Movi", 1, dst, 0, 0, 0)>>
      top == {ROut("V")}
      Set(es) == [Ok(zero \o <<Ins("MovLane", es, dst, InR(loc, 0), 0, 0)>>,
                     top \cup {RIn(0, "X")}, n.vlen = 16 \div es) EXCEPT !.vlAt = 1]
  IN  IF n.in0Zero THEN Ok(zero, top, TRUE)
      ELSE CASE n.packed \in {"Bool", "Uint8", "Int8"} -> Set(1)
             [] n.packed \in {"Uint16", "Int16"} -> Set(2)
             [] n.packed = "Int32" -> Set(4)
             [] n.packed = "Int64" -> Set(8)
             [] OTHER -> Abort(<<>>, top)

InstructionCodeGenerator_VisitVecSetScalars(n, loc) ==
  LET dst == loc.out.r
      zero == <<Ins("Movi", 1, dst, 0, 0, 0)>>  \* Zero out all other elements first.
      top == {ROut("V")}
      Set(es) == [Ok(zero \o <<Ins("MovLane", es, dst, InR(loc, 0), 0, 0)>>,
                     top \cup {RIn(0, "X")}, n.vlen = 16 \div es) EXCEPT !.vlAt = 1]
  IN  IF n.in0Zero THEN Ok(zero, top, TRUE)  \* Shorthand for any type of zero.
      ELSE CASE n.packed \in {"Bool", "Uint8", "Int8"} -> Set(1)
             [] n.packed \in {"Uint16", "Int16"} -> Set(2)
             [] n.packed = "Int32" -> Set(4)
             [] n.packed = "Int64" -> Set(8)
             [] OTHER -> Abort(zero, top)

InstructionCodeGenerator_VisitVecMultiplyAccumulate(n, loc) ==
  LET acc == InR(loc, 0)
      left == InR(loc, 1)
      right == InR(loc, 2)
      reads == {RIn(0, "V"), RIn(1, "V"), RIn(2, "V")}
      op == IF n.opKind = "kAdd" THEN "Mla" ELSE "Mls"
      Case(es) == [Ok(<<Ins(op, es, acc, left, right, 0)>>, reads, n.vlen = 16 \div es)
                     EXCEPT !.same = TRUE]
  IN  CASE n.packed \in {"Uint8", "Int8"} -> Case(1)
        [] n.packed \in {"Uint16", "Int16"} -> Case(2)
        [] n.packed = "Int32" -> Case(4)
        [] OTHER -> [Abort(<<>>, reads) EXCEPT !.same = TRUE]

\* A variant of SabalPair that accumulates the low half twice and the high
\* half never (Sabal where the code has Sabal2).
SabalPairLowTwice(es, acc, x, y) ==
  <<Ins("Sabal", es, acc, x, y, 0), Ins("Sabal", es, acc, x, y, 0)>>

\* Sabal + Sabal2 of the es-byte lanes of x and y into acc.
SabalPair(es, acc, x, y) ==
  <<Ins("Sabal", es, acc, x, y, 0), Ins("Sabal2", es, acc, x, y, 0)>>

\* A variant of SADSameWidth without the Abs.
SADSameWidthNoAbs(es, acc, left, right, tmp) ==
  <<Ins("Sub", es, tmp, left, right, 0),
    Ins("Add", es, acc, acc, tmp, 0)>>

\* A variant of SADSameWidth that works in the register of the left input
\* instead of the temporary.
SADSameWidthInPlace(es, acc, left, right, tmp) ==
  <<Ins("Sub", es, left, left, right, 0),
    Ins("Abs", es, left, left, left, 0),
    Ins("Add", es, acc, acc, left, 0)>>

\* The same-width case: Sub, Abs, Add through one temporary.
SADSameWidth(es, acc, left, right, tmp) ==
  <<Ins("Sub", es, tmp, left, right, 0),
    Ins("Abs", es, tmp, tmp, tmp, 0),
    Ins("Add", es, acc, acc, tmp, 0)>>

InstructionCodeGenerator_VisitVecSADAccumulate(n, loc) ==
  LET acc == InR(loc, 0)
      left == InR(loc, 1)
      right == InR(loc, 2)
      top == {RIn(0, "V"), RIn(1, "V"), RIn(2, "V")}
      tmp1 == GetTemp(loc, 0)
      tmp2 == GetTemp(loc, 1)
      tmp3 == GetTemp(loc, 2)
      tmp4 == GetTemp(loc, 3)
      Done(code, temps, vlOk) ==
        [Ok(code, top \cup {RTemp(i) : i \in temps}, vlOk) EXCEPT !.same = TRUE]
      Fail == [Abort(<<>>, top) EXCEPT !.same = TRUE]
      Pair(es, x, y) == SabalPair(es, acc, x, y)
      \* Sxtl (Sxtl2) of x into d and of y into e.
      Lo(es, d, x, e, y) == <<Ins("Sxtl", es, d, x, x, 0), Ins("Sxtl", es, e, y, y, 0)>>
      Hi(es, d, x, e, y) == <<Ins("Sxtl2", es, d, x, x, 0), Ins("Sxtl2", es, e, y, y, 0)>>
      Same(es) == SADSameWidth(es, acc, left, right, tmp1)
  IN  CASE n.aType \in {"Uint8", "Int8"} ->
             (CASE n.packed = "Int16" ->
                     Done(Pair(1, left, right), {}, n.aVlen = 16 /\ n.vlen = 8)
                [] n.packed = "Int32" ->
                     Done(Lo(1, tmp1, left, tmp2, right) \o Pair(2, tmp1, tmp2)
                          \o Hi(1, tmp1, left, tmp2, right) \o Pair(2, tmp1, tmp2),
                          {0, 1}, n.aVlen = 16 /\ n.vlen = 4)
                [] n.packed = "Int64" ->
                     Done(Lo(1, tmp1, left, tmp2, right)
                          \o Lo(2, tmp3, tmp1, tmp4, tmp2) \o Pair(4, tmp3, tmp4)
                          \o Hi(2, tmp3, tmp1, tmp4, tmp2) \o Pair(4, tmp3, tmp4)
                          \o Hi(1, tmp1, left, tmp2, right)
                          \o Lo(2, tmp3, tmp1, tmp4, tmp2) \o Pair(4, tmp3, tmp4)
                          \o Hi(2, tmp3, tmp1, tmp4, tmp2) \o Pair(4, tmp3, tmp4),
                          {0, 1, 2, 3}, n.aVlen = 16 /\ n.vlen = 2)
                [] OTHER -> Fail)
        [] n.aType \in {"Uint16", "Int16"} ->
             (CASE n.packed = "Int32" ->
                     Done(Pair(2, left, right), {}, n.aVlen = 8 /\ n.vlen = 4)
                [] n.packed = "Int64" ->
                     Done(Lo(2, tmp1, left, tmp2, right) \o Pair(4, tmp1, tmp2)
                          \o Hi(2, tmp1, left, tmp2, right) \o Pair(4, tmp1, tmp2),
                          {0, 1}, n.aVlen = 8 /\ n.vlen = 2)
                [] OTHER -> Fail)
        [] n.aType = "Int32" ->
             (CASE n.packed = "Int32" -> Done(Same(4), {0}, n.aVlen = 4 /\ n.vlen = 4)
                [] n.packed = "Int64" ->
                     Done(Pair(4, left, right), {}, n.aVlen = 4 /\ n.vlen = 2)
                [] OTHER -> Fail)
        [] n.aType = "Int64" ->
             (CASE n.packed = "Int64" -> Done(Same(8), {0}, n.aVlen = 2 /\ n.vlen = 2)
                [] OTHER -> Fail)
        [] OTHER -> Fail

\* A variant of DotProdFallback that adds the low half of each product
\* vector twice (Uaddw / Saddw where the code has Uaddw2 / Saddw2).
DotProdFallbackLowTwice(zeroExt, acc, left, right, tmp) ==
  LET mull == IF zeroExt THEN "Umull" ELSE "Smull"
      mull2 == IF zeroExt THEN "Umull2" ELSE "Smull2"
      addw == IF zeroExt THEN "Uaddw" ELSE "Saddw"
  IN  <<Ins(mull, 1, tmp, left, right, 0),
        Ins(addw, 2, acc, acc, tmp, 0),
        Ins(addw, 2, acc, acc, tmp, 0),
        Ins(mull2, 1, tmp, left, right, 0),
        Ins(addw, 2, acc, acc, tmp, 0),
        Ins(addw, 2, acc, acc, tmp, 0)>>

\* The portable sequence: widening multiply of the low and of the high
\* 8 bytes, each followed by the widening adds of the product's halves.
DotProdFallback(zeroExt, acc, left, right, tmp) ==
  LET mull == IF zeroExt THEN "Umull" ELSE "Smull"
      mull2 == IF zeroExt THEN "Umull2" ELSE "Smull2"
      addw == IF zeroExt THEN "Uaddw" ELSE "Saddw"
      addw2 == IF zeroExt THEN "Uaddw2" ELSE "Saddw2"
  IN  <<Ins(mull, 1, tmp, left, right, 0),
        Ins(addw, 2, acc, acc, tmp, 0),
        Ins(addw2, 2, acc, acc, tmp, 0),
        Ins(mull2, 1, tmp, left, right, 0),
        Ins(addw, 2, acc, acc, tmp, 0),
        Ins(addw2, 2, acc, acc, tmp, 0)>>

InstructionCodeGenerator_VisitVecDotProd(n, loc, cg) ==
  LET acc == InR(loc, 0)
      left == InR(loc, 1)
      right == InR(loc, 2)
      top == {RIn(0, "V"), RIn(1, "V"), RIn(2, "V")}
      tmp == GetTemp(loc, 0)
      Done(code, temps, vlOk) ==
        [Ok(code, top \cup {RTemp(i) : i \in temps},
            vlOk /\ n.packed = "Int32" /\ n.vlen = 4) EXCEPT !.same = TRUE]
  IN  CASE Size(n.aType) = 1 ->
             IF n.zeroExt
             THEN IF ShouldEmitDotProductInstructions(cg)
                  THEN Done(<<Ins("Udot", 1, acc, left, right, 0)>>, {}, n.aVlen = 16)
                  ELSE Done(DotProdFallback(TRUE, acc, left, right, tmp), {0},
                            n.aVlen = 16)
             ELSE IF ShouldEmitDotProductInstructions(cg)
                  THEN Done(<<Ins("Sdot", 1, acc, left, right, 0)>>, {}, n.aVlen = 16)
                  ELSE Done(DotProdFallback(FALSE, acc, left, right, tmp), {0},
                            n.aVlen = 16)
        [] Size(n.aType) = 2 ->
             IF n.zeroExt
             THEN Done(<<Ins("Umlal", 2, acc, left, right, 0),
                         Ins("Umlal2", 2, acc, left, right, 0)>>, {}, n.aVlen = 8)
             ELSE Done(<<Ins("Smlal", 2, acc, left, right, 0),
                         Ins("Smlal2", 2, acc, left, right, 0)>>, {}, n.aVlen = 8)
        [] OTHER -> [Abort(<<>>, top) EXCEPT !.same = TRUE]

\* Acquire takes the lowest register available.
Acquire(avail) == CHOOSE r \in avail : \A q \in avail : r <= q

\* mirror::Array::DataOffset(size)
DataOffset(size) == IF size = 8 THEN 16 ELSE 12

\* ComponentSizeShiftWidth(size)
ShiftWidth(size) == CASE size = 1 -> 0 [] size = 2 -> 1 [] size = 4 -> 2 [] OTHER -> 3

\* InstructionCodeGeneratorARM64::VecNeonAddress: the address base + offset of
\* the element, computed into a scratch register taken from avail when the
\* index is not a constant.  Returns the instructions emitted, the operand
\* [base, offset], the scratch register (NoReg when none was acquired) and the
\* slots read.
VecNeonAddress(n, loc, avail, size, is_string_char_at) ==
  LET base == InR(loc, 0)
      offset == IF is_string_char_at THEN ValueOffset ELSE DataOffset(size)
      shift == ShiftWidth(size)
  IN  IF InK(loc, 1) = "C"
      THEN [code |-> <<>>, base |-> base, offset |-> offset + n.imm * (2 ^ shift),
            scratch |-> NoReg, reads |-> {RIn(0, "X"), RIn(1, "C")}]
      ELSE LET scratch == Acquire(avail)
           IN  [code |-> <<Ins("AddLsl", 0, scratch, base, InR(loc, 1), shift)>>,
                base |-> scratch, offset |-> offset,
                scratch |-> scratch, reads |-> {RIn(0, "X"), RIn(1, "X")}]

\* A call on the UseScratchRegisterScope, made after at instructions: ev is
\* "acquire" / "release" of a general-purpose register, "acquireV" /
\* "releaseV" of a vector register.
ScopeEv(ev, r, at) == [ev |-> ev, r |-> r, at |-> at]

\* The scratch lists after the calls of events were made on lists avail.
RECURSIVE ScopeAvail(_, _)
ScopeAvail(avail, events) ==
  IF events = <<>> THEN avail
  ELSE LET e == Head(events)
           next == CASE e.ev = "acquire" -> [avail EXCEPT !.x = @ \ {e.r}]
                     [] e.ev = "release" -> [avail EXCEPT !.x = @ \cup {e.r}]
                     [] e.ev = "acquireV" -> [avail EXCEPT !.v = @ \ {e.r}]
                     [] OTHER -> [avail EXCEPT !.v = @ \cup {e.r}]
       IN  ScopeAvail(next, Tail(events))

\* ~UseScratchRegisterScope: the lists are set back to what the constructor
\* saved.
ScopeExit(saved, avail) == saved

\* A variant of WithScope whose scope object is never destroyed: the lists
\* stay as the last call left them.
WithScopeNoExit(e, entry, events) ==
  [e EXCEPT !.scope = events, !.entry = entry, !.pool = ScopeAvail(entry, events)]

\* UseScratchRegisterScope temps(GetVIXLAssembler()): a routine that produced
\* e declared a scope as a local, made the calls of events on it, and
\* returned, which destroys the scope.
WithScope(e, entry, events) ==
  [e EXCEPT !.scope = events, !.entry = entry,
            !.pool = ScopeExit(entry, ScopeAvail(entry, events))]

\* A variant of CompressedLoad without the branch to done: the code falls
\* through into the uncompressed load.
CompressedLoadFallThrough(reg, base, offset) ==
  <<Ins("LdrD", 0, reg, base, 0, offset),
    Ins("Uxtl", 1, reg, reg, reg, 0)>>

\* Zero extend 8 compressed bytes into 8 chars, then branch to done.
CompressedLoad(reg, base, offset) ==
  <<Ins("LdrD", 0, reg, base, 0, offset),
    Ins("Uxtl", 1, reg, reg, reg, 0),
    Br("B", 0, 0, "done")>>

\* A variant of StringLoadScope without temps.Release(length).
StringLoadScopeLengthKept(length, scratch1, scratch2, n1, n2) ==
  <<ScopeEv("acquire", length, 0)>>
  \o (IF scratch1 # NoReg
      THEN <<ScopeEv("acquire", scratch1, n1), ScopeEv("release", scratch1, n2)>>
      ELSE <<>>)
  \o (IF scratch2 # NoReg THEN <<ScopeEv("acquire", scratch2, n2 + 1)>> ELSE <<>>)

\* The calls the compressed string load makes on its scope: AcquireW for the
\* length and its Release after the n1 instructions of the test; the
\* compressed path's address scratch, if VecNeonAddress acquired one, and
\* its Release after the n2 instructions up to B(&done); the uncompressed
\* path's address scratch after Bind(&uncompressed_load).
StringLoadScope(length, scratch1, scratch2, n1, n2) ==
  <<ScopeEv("acquire", length, 0), ScopeEv("release", length, n1)>>
  \o (IF scratch1 # NoReg
      THEN <<ScopeEv("acquire", scratch1, n1), ScopeEv("release", scratch1, n2)>>
      ELSE <<>>)
  \o (IF scratch2 # NoReg THEN <<ScopeEv("acquire", scratch2, n2 + 1)>> ELSE <<>>)

InstructionCodeGenerator_VisitVecLoad(n, loc) ==
  LET size == Size(n.packed)
      reg == loc.out.r
      top == {ROut("V")}
      \* Special handling of compressed/uncompressed string load.
      String ==
        LET length == Acquire(ScratchPool)  \* temps.AcquireW()
            head == <<Ins("LdrW", 0, length, InR(loc, 0), 0, CountOffset),
                      Br("Tbnz", length, 0, "uncompressed_load")>>
            \* temps.Release(length): the whole pool is available again.
            avail1 == (ScratchPool \ {length}) \cup {length}
            a1 == VecNeonAddress(n, loc, avail1, 1, TRUE)
            compressed == a1.code \o CompressedLoad(reg, a1.base, a1.offset)
            \* if (scratch.IsValid()) temps.Release(scratch)
            avail2 == (avail1 \ {a1.scratch}) \cup (IF a1.scratch # NoReg THEN {a1.scratch} ELSE {})
            a2 == VecNeonAddress(n, loc, avail2, size, TRUE)
            \* Load 8 direct uncompressed chars.
            uncompressed == <<Br("Bind", 0, 0, "uncompressed_load")>> \o a2.code
                            \o <<Ins("LdrQ", 0, reg, a2.base, 0, a2.offset),
                                 Br("Bind", 0, 0, "done")>>
            n1 == Len(head)
            n2 == n1 + Len(compressed)
        IN  WithScope(Ok(head \o compressed \o uncompressed,
                         top \cup {RIn(0, "X")} \cup a1.reads \cup a2.reads, n.vlen = 8),
                      FullPool, StringLoadScope(length, a1.scratch, a2.scratch, n1, n2))
      Plain ==
        LET a == VecNeonAddress(n, loc, ScratchPool, size, n.isStringCharAt)
        IN  WithScope(Ok(a.code \o <<Ins("LdrQ", 0, reg, a.base, 0, a.offset)>>,
                         top \cup a.reads, 2 <= n.vlen /\ n.vlen <= 16),
                      FullPool,
                      IF a.scratch # NoReg
                      THEN <<ScopeEv("acquire", a.scratch, 0)>> ELSE <<>>)
  IN  CASE n.packed \in {"Int16", "Uint16"} ->
             IF kUseStringCompression /\ n.isStringCharAt THEN String ELSE Plain
        [] n.packed \in {"Bool", "Uint8", "Int8", "Int32", "Float32", "Int64", "Float64"} ->
             Plain
        [] OTHER -> Abort(<<>>, top)

InstructionCodeGenerator_VisitVecStore(n, loc) ==
  LET size == Size(n.packed)
      reg == InR(loc, 2)
      top == {RIn(2, "V")}
      a == VecNeonAddress(n, loc, ScratchPool, size, FALSE)
  IN  CASE n.packed \in {"Bool", "Uint8", "Int8", "Uint16", "Int16", "Int32", "Float32",
                         "Int64", "Float64"} ->
             WithScope(Ok(a.code \o <<Ins("StrQ", 0, reg, a.base, 0, a.offset)>>,
                          top \cup a.reads, 2 <= n.vlen /\ n.vlen <= 16),
                       FullPool,
                       IF a.scratch # NoReg
                       THEN <<ScopeEv("acquire", a.scratch, 0)>> ELSE <<>>)
        [] OTHER -> Abort(<<>>, top)

kArm64WordSize == 8

\* A variant of MoveToSIMDStackSlot whose general-purpose path moves the low
\* 8 bytes twice.
MoveToSIMDStackSlotLowHalf(destination, source, entry) ==
  LET temp == Acquire(IF entry.v = {} THEN entry.x ELSE entry.v)
  IN  IF source.kind = "FpuRegister"
      THEN [Ok(<<Ins("StrQSp", 0, source.reg, 0, 0, destination.index)>>, {}, TRUE)
              EXCEPT !.entry = entry, !.pool = entry]
      ELSE IF entry.v = {}
           THEN WithScope(Ok(<<Ins("LdrSp", 0, temp, 0, 0, source.index),
                               Ins("StrSp", 0, temp, 0, 0, destination.index),
                               Ins("LdrSp", 0, temp, 0, 0, source.index),
                               Ins("StrSp", 0, temp, 0, 0, destination.index)>>, {}, TRUE),
                          entry, <<ScopeEv("acquire", temp, 0)>>)
           ELSE WithScope(Ok(<<Ins("LdrQSp", 0, temp, 0, 0, source.index),
                               Ins("StrQSp", 0, temp, 0, 0, destination.index)>>, {}, TRUE),
                          entry, <<ScopeEv("acquireV", temp, 0)>>)

\* InstructionCodeGeneratorARM64Sve::MoveToSIMDStackSlot: a 16 byte move into
\* the stack slot destination, from a vector register or another stack slot,
\* entered with scratch lists entry.  LdrSp / StrSp move 8 bytes between a
\* general-purpose register and [sp + imm], LdrQSp / StrQSp 16 bytes between
\* a vector register and [sp + imm].
MoveToSIMDStackSlot(destination, source, entry) ==
  IF source.kind = "FpuRegister"
  THEN [Ok(<<Ins("StrQSp", 0, source.reg, 0, 0, destination.index)>>, {}, TRUE)
          EXCEPT !.entry = entry, !.pool = entry]
  ELSE IF entry.v = {}
       THEN LET temp == Acquire(entry.x)
            IN  WithScope(Ok(<<Ins("LdrSp", 0, temp, 0, 0, source.index),
                               Ins("StrSp", 0, temp, 0, 0, destination.index),
                               Ins("LdrSp", 0, temp, 0, 0, source.index + kArm64WordSize),
                               Ins("StrSp", 0, temp, 0, 0,
                                   destination.index + kArm64WordSize)>>, {}, TRUE),
                          entry, <<ScopeEv("acquire", temp, 0)>>)
       ELSE LET temp == Acquire(entry.v)
            IN  WithScope(Ok(<<Ins("LdrQSp", 0, temp, 0, 0, source.index),
                               Ins("StrQSp", 0, temp, 0, 0, destination.index)>>, {}, TRUE),
                          entry, <<ScopeEv("acquireV", temp, 0)>>)

\* InstructionCodeGeneratorARM64Sve::Visit<kind>: the emission routine of
\* node n.
InstructionCodeGenerator_Visit(n, loc, cg) ==
  CASE n.kind = "VecReplicateScalar" -> InstructionCodeGenerator_VisitVecReplicateScalar(n, loc)
    [] n.kind = "VecExtractScalar" -> InstructionCodeGenerator_VisitVecExtractScalar(n, loc)
    [] n.kind = "VecReduce" -> InstructionCodeGenerator_VisitVecReduce(n, loc)
    [] n.kind = "VecCnv" -> InstructionCodeGenerator_VisitVecCnv(n, loc)
    [] n.kind = "VecNeg" -> InstructionCodeGenerator_VisitVecNeg(n, loc)
    [] n.kind = "VecAbs" -> InstructionCodeGenerator_VisitVecAbs(n, loc)
    [] n.kind = "VecNot" -> InstructionCodeGenerator_VisitVecNot(n, loc)
    [] n.kind = "VecAdd" -> InstructionCodeGenerator_VisitVecAdd(n, loc)
    [] n.kind = "VecSaturationAdd" -> InstructionCodeGenerator_VisitVecSaturationAdd(n, loc)
    [] n.kind = "VecHalvingAdd" -> InstructionCodeGenerator_VisitVecHalvingAdd(n, loc)
    [] n.kind = "VecSub" -> InstructionCodeGenerator_VisitVecSub(n, loc)
    [] n.kind = "VecSaturationSub" -> InstructionCodeGenerator_VisitVecSaturationSub(n, loc)
    [] n.kind = "VecMul" -> InstructionCodeGenerator_VisitVecMul(n, loc)
    [] n.kind = "VecDiv" -> InstructionCodeGenerator_VisitVecDiv(n, loc)
    [] n.kind = "VecMin" -> InstructionCodeGenerator_VisitVecMin(n, loc)
    [] n.kind = "VecMax" -> InstructionCodeGenerator_VisitVecMax(n, loc)
    [] n.kind = "VecAnd" -> InstructionCodeGenerator_VisitVecAnd(n, loc)
    [] n.kind = "VecOr" -> InstructionCodeGenerator_VisitVecOr(n, loc)
    [] n.kind = "VecXor" -> InstructionCodeGenerator_VisitVecXor(n, loc)
    [] n.kind = "VecShl" -> InstructionCodeGenerator_VisitVecShl(n, loc)
    [] n.kind = "VecShr" -> InstructionCodeGenerator_VisitVecShr(n, loc)
    [] n.kind = "VecUShr" -> InstructionCodeGenerator_VisitVecUShr(n, loc)
    [] n.kind = "VecSetScalars" -> InstructionCodeGenerator_VisitVecSetScalars(n, loc)
    [] n.kind = "VecMultiplyAccumulate" ->
         InstructionCodeGenerator_VisitVecMultiplyAccumulate(n, loc)
    [] n.kind = "VecSADAccumulate" -> InstructionCodeGenerator_VisitVecSADAccumulate(n, loc)
    [] n.kind = "VecDotProd" -> InstructionCodeGenerator_VisitVecDotProd(n, loc, cg)
    [] n.kind = "VecLoad" -> InstructionCodeGenerator_VisitVecLoad(n, loc)
    [] n.kind = "VecStore" -> InstructionCodeGenerator_VisitVecStore(n, loc)
    [] OTHER -> Abort(<<>>, {})

\* ------------------------------------------------------------------------
\* The vector IR nodes.  A node is a record of what the planner and the
\* emitter query of an HVec instruction: kind, packed (GetPackedType), aType
\* and bType (the packed types of the vector inputs a and b of an accumulate
\* node, aType also GetInputType of a conversion), vlen and aVlen
\* (GetVectorLength of the node and of a), opKind (GetOpKind), reduction
\* (GetReductionKind), rounded (IsRounded), zeroExt (IsZeroExtending),
\* isStringCharAt, in0Const (InputAt(0)->IsConstant()), in0Enc
\* (Arm64CanEncodeConstantAsImmediate of it), in0Zero (IsZeroBitPattern of
\* it), in1Const (InputAt(1)->IsConstant()), imm (the value of the constant
\* input).

MkNode(kind, packed, aType) ==
  [kind |-> kind, packed |-> packed, aType |-> aType, bType |-> aType,
   vlen |-> VecLen(packed), aVlen |-> VecLen(aType),
   opKind |-> "kAdd", reduction |-> "kSum", rounded |-> FALSE, zeroExt |-> FALSE,
   isStringCharAt |-> FALSE, in0Const |-> FALSE, in0Enc |-> FALSE, in0Zero |-> FALSE,
   in1Const |-> FALSE, imm |-> 1]

SimpleNodes(kinds) == {MkNode(k, t, t) : k \in kinds, t \in PackedTypes}

ReplicateScalarNodes ==
  {[MkNode("VecReplicateScalar", t, t) EXCEPT !.in0Const = c[1], !.in0Enc = c[2]] :
     t \in PackedTypes, c \in {<<FALSE, FALSE>>, <<TRUE, FALSE>>, <<TRUE, TRUE>>}}

ReduceNodes ==
  {[MkNode("VecReduce", t, t) EXCEPT !.reduction = r] :
     t \in PackedTypes, r \in {"kSum", "kMin", "kMax"}}

CnvNodes == {MkNode("VecCnv", t, a) : t \in PackedTypes, a \in PackedTypes}

HalvingAddNodes ==
  {[MkNode("VecHalvingAdd", t, t) EXCEPT !.rounded = r] : t \in PackedTypes, r \in BOOLEAN}

ShiftNodes ==
  {[MkNode(k, t, t) EXCEPT !.in1Const = TRUE] : k \in ShiftKinds, t \in PackedTypes}

\* The scalar is not a constant, a constant other than zero, or zero.
SetScalarsNodes ==
  {[MkNode("VecSetScalars", t, t) EXCEPT !.in0Const = c[1], !.in0Zero = c[2],
                                         !.imm = IF c[2] THEN 0 ELSE 1] :
     t \in PackedTypes, c \in {<<FALSE, FALSE>>, <<TRUE, FALSE>>, <<TRUE, TRUE>>}}

MultiplyAccumulateNodes ==
  {[MkNode("VecMultiplyAccumulate", t, t) EXCEPT !.opKind = o] :
     t \in PackedTypes, o \in {"kAdd", "kSub"}}

\* Inputs a and b of an accumulate node agree up to signedness (the DCHECK_EQ
\* on ToSignedType).
SADNodes ==
  {[MkNode("VecSADAccumulate", t, a) EXCEPT !.bType = b] :
     t \in PackedTypes,
     <<a, b>> \in {p \in PackedTypes \X PackedTypes : ToSignedType(p[1]) = ToSignedType(p[2])}}

\* A dot product accumulates into Int32 lanes (the DCHECK on the packed type).
DotProdNodes ==
  {[MkNode("VecDotProd", "Int32", a) EXCEPT !.zeroExt = z] : a \in PackedTypes, z \in BOOLEAN}

MemNodes ==
  {[MkNode(k, t, t) EXCEPT !.in1Const = c, !.isStringCharAt = s] :
     k \in {"VecLoad", "VecStore"}, t \in PackedTypes, c \in BOOLEAN,
     s \in {FALSE}}
  \cup
  {[MkNode("VecLoad", t, t) EXCEPT !.in1Const = c, !.isStringCharAt = TRUE] :
     t \in {"Uint16", "Int16"}, c \in BOOLEAN}

AllNodes ==
  SimpleNodes((Kinds \ {"VecReplicateScalar", "VecReduce", "VecCnv", "VecHalvingAdd",
                        "VecSetScalars", "VecMultiplyAccumulate", "VecSADAccumulate",
                        "VecDotProd", "VecLoad", "VecStore"}) \ ShiftKinds)
  \cup ReplicateScalarNodes \cup ReduceNodes \cup CnvNodes \cup HalvingAddNodes
  \cup ShiftNodes \cup SetScalarsNodes \cup MultiplyAccumulateNodes \cup SADNodes
  \cup DotProdNodes \cup MemNodes

\* ------------------------------------------------------------------------
\* Operand values.

\* The probe byte values, most telling first.
ByteAt(k) ==
  CASE k = 1 -> 0
    [] k = 2 -> 255
    [] k = 3 -> 128
    [] k = 4 -> 127
    [] k = 5 -> 1
    [] OTHER -> (k * 37) % 256

ByteVals == {ByteAt(k) : k \in 1..NumByteVals}

AccVals == {ByteAt(k) : k \in 1..NumAccVals}

\* The vector with byte v at position hot and fill everywhere else.
Vec(hot, v, fill) == [j \in 1..kQRegSizeInBytes |-> IF j = hot THEN v ELSE fill]

Uniform(v) == Vec(1, v, v)

HotVecs(vals) == {Vec(h, v, f) : h \in 1..kQRegSizeInBytes, v \in vals, f \in vals}

UniformVecs(vals) == {Uniform(v) : v \in vals}

\* What a register holds before the node's code writes it.
JunkVec == Uniform(170)

\* The memory: a string (or array) object at address 0, its count field at
\* CountOffset holding (length << 1) | flag.
MemTop == ValueOffset + 8 * MaxIndex + kQRegSizeInBytes

MemByte(seed, a) == (a * (2 * seed + 5) * 7 + seed * 101 + 131) % 256

MemImage(seed, flag) ==
  [a \in 0 .. MemTop - 1 |->
     IF a = CountOffset THEN 2 * 8 + flag
     ELSE IF a \in CountOffset + 1 .. CountOffset + 3 THEN 0
     ELSE MemByte(seed, a)]

MemImages == {MemImage(s, f) : s \in 1..NumMemSeeds, f \in {0, 1}}

\* ------------------------------------------------------------------------
\* State.

VARIABLES
  node,       \* the vector IR node being compiled
  cg,         \* the code generator: [emitDotProd, hasDotProd]
  vin,        \* the values of the node's vector inputs, by input slot
  xin,        \* the values of the node's general-purpose inputs, by input slot
  pc,         \* "node", "planned", "plan_fatal", "allocated", "emitted",
              \* "emit_fatal", "running", "done", "moved", "moving",
              \* "spilled"
  locations,  \* the LocationSummary the planner attached
  loc,        \* the LocationSummary after register allocation
  emitted,    \* what the emitter produced
  ip,         \* the next instruction of emitted.code to run
  V,          \* the vector register file
  X,          \* the general-purpose register file
  mem,        \* the memory
  trace       \* the indexes of the instructions run so far

vars == <<node, cg, vin, xin, pc, locations, loc, emitted, ip, V, X, mem, trace>>

VRegs == 0 .. 7

XRegs == {0, 1, 2} \cup ScratchPool

NoAlloc == [in |-> <<>>, out |-> [k |-> "-", r |-> 0], temps |-> <<>>]

NoEmit == Ok(<<>>, {}, TRUE)

InitWith(Nodes, Cgs, VIns, XIns, Mems) ==
  /\ node \in Nodes
  /\ cg \in Cgs
  /\ vin \in VIns
  /\ xin \in XIns
  /\ mem \in Mems
  /\ pc = "node"
  /\ locations = FatalSummary
  /\ loc = NoAlloc
  /\ emitted = NoEmit
  /\ ip = 1
  /\ V = [r \in VRegs |-> JunkVec]
  /\ X = [r \in XRegs |-> 0]
  /\ trace = <<>>

\* The planning pass: the planner routine of the node's kind runs, and either
\* attaches a LocationSummary or ends in LOG(FATAL).
Plan ==
  /\ pc = "node"
  /\ locations' = LocationsBuilder_Visit(node, cg)
  /\ pc' = IF locations'.valid THEN "planned" ELSE "plan_fatal"
  /\ UNCHANGED <<node, cg, vin, xin, loc, emitted, ip, V, X, mem, trace>>

\* The class of operand a constraint resolves to.
ClassOf(c) ==
  CASE c = FpuReg -> "V"
    [] c = GpReg -> "X"
    [] c = ConstLoc -> "C"
    [] OTHER -> "-"

\* How many of the first i input slots of s are of class k.
Before(s, i, k) == Cardinality({j \in 1..i : ClassOf(s.in[j]) = k})

\* The register allocator resolves the summary s: the inputs take the first
\* registers of their class in slot order, the output is input 0's location
\* (SameAsFirstInput), a fresh register, or (kNoOutputOverlap only) the
\* register of an input of its class; the temporaries are fresh.
Resolved(s, outReg) ==
  LET in == [i \in 1..Len(s.in) |->
               [k |-> ClassOf(s.in[i]), r |-> Before(s, i - 1, ClassOf(s.in[i]))]]
      nV == Before(s, Len(s.in), "V") + (IF s.out = FpuReg THEN 1 ELSE 0)
  IN  [in |-> in,
       out |-> IF s.out = SameAsFirst THEN in[1]
               ELSE [k |-> ClassOf(s.out), r |-> outReg],
       temps |-> [j \in 1..s.temps |-> nV + j - 1]]

\* The registers the allocator may give the output of summary s.
OutRegs(s) ==
  LET k == ClassOf(s.out)
      fresh == Before(s, Len(s.in), k)
  IN  IF s.out \in {SameAsFirst, Unset} THEN {0}
      ELSE {fresh} \cup (IF s.overlap THEN {} ELSE 0 .. fresh - 1)

Allocate ==
  /\ pc = "planned"
  /\ \E r \in OutRegs(locations) : loc' = Resolved(locations, r)
  /\ V' = [r \in VRegs |->
             IF \E i \in 1..Len(loc'.in) : loc'.in[i].k = "V" /\ loc'.in[i].r = r
             THEN vin[CHOOSE i \in 1..Len(loc'.in) : loc'.in[i].k = "V" /\ loc'.in[i].r = r]
             ELSE JunkVec]
  /\ X' = [r \in XRegs |->
             IF \E i \in 1..Len(loc'.in) : loc'.in[i].k = "X" /\ loc'.in[i].r = r
             THEN xin[CHOOSE i \in 1..Len(loc'.in) : loc'.in[i].k = "X" /\ loc'.in[i].r = r]
             ELSE 0]
  /\ pc' = "allocated"
  /\ UNCHANGED <<node, cg, vin, xin, locations, emitted, ip, mem, trace>>

\* The emission pass: the emission routine of the node's kind runs on the
\* resolved summary.
Emit ==
  /\ pc = "allocated"
  /\ emitted' = InstructionCodeGenerator_Visit(node, loc, cg)
  /\ pc' = IF emitted'.fatal THEN "emit_fatal"
           ELSE IF emitted'.code = <<>> THEN "done" ELSE "emitted"
  /\ UNCHANGED <<node, cg, vin, xin, locations, loc, ip, V, X, mem, trace>>

\* ------------------------------------------------------------------------
\* Running the emitted code.

MemOps == {"LdrW", "LdrD", "LdrQ", "StrQ", "AddLsl"}

CtlOps == {"Tbnz", "B", "Bind"}

\* The position of Bind(lbl) in code.
LabelPos(code, lbl) ==
  CHOOSE i \in 1..Len(code) : code[i].op = "Bind" /\ code[i].lbl = lbl

Bytes(m, a, k) == [j \in 1..k |-> m[a + j - 1]]

Bit(v, b) == (v \div (2 ^ b)) % 2

Runnable(ins) ==
  \/ /\ ins.op \in VecOps /\ {ins.rd, ins.rn, ins.rm} \subseteq VRegs
     /\ ins.op \in {"Shl", "Sshr", "Ushr"} => ShiftEncodable(ins)
  \/ ins.op \in CtlOps
  \/ ins.op \in {"LdrW", "AddLsl"} /\ {ins.rd, ins.rn, ins.rm} \subseteq XRegs
  \/ ins.op \in {"LdrD", "LdrQ", "StrQ"} /\ ins.rd \in VRegs /\ ins.rn \in XRegs
  \/ ins.op = "MovLane" /\ ins.rd \in VRegs /\ ins.rn \in XRegs

\* One instruction of the emitted code runs.
Step ==
  /\ pc \in {"emitted", "running"}
  /\ ip <= Len(emitted.code)
  /\ LET ins == emitted.code[ip]
         addr == X[ins.rn] + ins.imm
         width == CASE ins.op = "LdrW" -> 4 [] ins.op = "LdrD" -> 8 [] OTHER -> 16
     IN  /\ Runnable(ins)
         /\ ins.op \in {"LdrW", "LdrD", "LdrQ", "StrQ"} => addr + width <= MemTop
         /\ V' = CASE ins.op \in VecOps -> [V EXCEPT ![ins.rd] = VecResult(ins, V)]
                   [] ins.op = "LdrD" ->
                        [V EXCEPT ![ins.rd] = Bytes(mem, addr, 8) \o Zeros(8)]
                   [] ins.op = "LdrQ" -> [V EXCEPT ![ins.rd] = Bytes(mem, addr, 16)]
                   [] ins.op = "MovLane" ->  \* Mov(vd, 0, rn): lane 0 from rn
                        [V EXCEPT ![ins.rd] =
                           FromNat(X[ins.rn], ins.es)
                           \o SubSeq(V[ins.rd], ins.es + 1, kQRegSizeInBytes)]
                   [] OTHER -> V
         /\ X' = CASE ins.op = "LdrW" -> [X EXCEPT ![ins.rd] = ToNat(Bytes(mem, addr, 4))]
                   [] ins.op = "AddLsl" ->
                        [X EXCEPT ![ins.rd] = X[ins.rn] + X[ins.rm] * (2 ^ ins.imm)]
                   [] OTHER -> X
         /\ mem' = IF ins.op = "StrQ"
                   THEN [a \in DOMAIN mem |->
                           IF a >= addr /\ a < addr + 16 THEN V[ins.rd][a - addr + 1]
                           ELSE mem[a]]
                   ELSE mem
         /\ ip' = CASE ins.op = "Tbnz" ->
                         IF Bit(X[ins.rn], ins.imm) = 1
                         THEN LabelPos(emitted.code, ins.lbl) ELSE ip + 1
                    [] ins.op = "B" -> LabelPos(emitted.code, ins.lbl)
                    [] OTHER -> ip + 1
         /\ trace' = Append(trace, ip)
  /\ pc' = IF ip' > Len(emitted.code) THEN "done" ELSE "running"
  /\ UNCHANGED <<node, cg, vin, xin, locations, loc, emitted>>

Next == Plan \/ Allocate \/ Emit \/ Step

\* The locations the parallel move resolver hands to MoveToSIMDStackSlot.
MoveSources ==
  {[kind |-> "FpuRegister", reg |-> r, index |-> 0] : r \in {0, 1}}
  \cup {[kind |-> "SIMDStackSlot", reg |-> 0, index |-> i] : i \in {0, kQRegSizeInBytes}}

MoveDestination == [kind |-> "SIMDStackSlot", reg |-> 0, index |-> 2 * kQRegSizeInBytes]

\* The scratch lists the resolver may call it with: the vector list holds its
\* register or is empty.
MovePools == {[x |-> ScratchPool, v |-> v] : v \in {{}, ScratchVPool}}

\* A spill move emitted by the parallel move resolver.
Move ==
  /\ pc = "node"
  /\ \E source \in MoveSources, entry \in MovePools :
       emitted' = MoveToSIMDStackSlot(MoveDestination, source, entry)
  /\ pc' = "moved"
  /\ UNCHANGED <<node, cg, vin, xin, locations, loc, ip, V, X, mem, trace>>

NextMove == Plan \/ Allocate \/ Emit \/ Step \/ Move

\* A pending move of the parallel move resolver into a SIMD stack slot: the
\* node of a run that resolves moves.
SpillMoves ==
  {[kind |-> "ParallelMove", source |-> source, destination |-> MoveDestination] :
     source \in MoveSources}

\* The resolver has MoveToSIMDStackSlot emit the pending move.
Spill ==
  /\ pc = "node"
  /\ node.kind = "ParallelMove"
  /\ \E entry \in MovePools :
       emitted' = MoveToSIMDStackSlot(node.destination, node.source, entry)
  /\ pc' = "moved"
  /\ UNCHANGED <<node, cg, vin, xin, locations, loc, ip, V, X, mem, trace>>

\* One instruction of the move's code runs; mem is the frame, sp at address
\* 0.  A general-purpose register holds the 8 bytes LdrSp loaded; a scratch
\* vector register joins the register file when it is first written.
MoveStep ==
  /\ pc \in {"moved", "moving"}
  /\ ip <= Len(emitted.code)
  /\ LET ins == emitted.code[ip]
         width == IF ins.op \in {"LdrSp", "StrSp"} THEN kArm64WordSize
                  ELSE kQRegSizeInBytes
         Stored(bytes) == [a \in DOMAIN mem |->
                             IF a >= ins.imm /\ a < ins.imm + width
                             THEN bytes[a - ins.imm + 1] ELSE mem[a]]
     IN  /\ ins.op \in {"LdrSp", "StrSp", "LdrQSp", "StrQSp"}
         /\ ins.imm + width - 1 \in DOMAIN mem
         /\ X' = IF ins.op = "LdrSp"
                  THEN [X EXCEPT ![ins.rd] = Bytes(mem, ins.imm, width)] ELSE X
         /\ V' = IF ins.op = "LdrQSp"
                  THEN [r \in DOMAIN V \cup {ins.rd} |->
                          IF r = ins.rd THEN Bytes(mem, ins.imm, width) ELSE V[r]]
                  ELSE V
         /\ mem' = CASE ins.op = "StrSp" -> Stored(X[ins.rd])
                      [] ins.op = "StrQSp" -> Stored(V[ins.rd])
                      [] OTHER -> mem
  /\ ip' = ip + 1
  /\ trace' = Append(trace, ip)
  /\ pc' = IF ip' > Len(emitted.code) THEN "spilled" ELSE "moving"
  /\ UNCHANGED <<node, cg, vin, xin, locations, loc, emitted>>

NextSpill == Spill \/ MoveStep

\* ------------------------------------------------------------------------
\* Specifications: the same program over different sets of nodes and operand
\* values.

\* The code generator as built (the dot product switch at its pinned value)
\* on a target with or without the dot product extension.
BuiltCgs == {[emitDotProd |-> kArm64EmitDotProdInstructions, hasDotProd |-> h] : h \in BOOLEAN}

\* The code generator with the build-time switch at either value.
AnyCgs == {[emitDotProd |-> e, hasDotProd |-> h] : e \in BOOLEAN, h \in BOOLEAN}

\* The code generator as built, on a target without the dot product extension.
OneCg == {[emitDotProd |-> kArm64EmitDotProdInstructions, hasDotProd |-> FALSE]}

OneVIn == {<<Uniform(1), Uniform(2), Uniform(3)>>}

OneXIn == {<<0, 0>>}

NoMem == {[a \in 0 .. MemTop - 1 |-> 0]}

\* Every node kind and packed type, planned, allocated and emitted.
Init == InitWith(AllNodes, BuiltCgs, OneVIn, OneXIn, NoMem)

Spec == Init /\ [][Next]_vars

\* The sum-of-absolute-differences and dot product nodes under every value of
\* the build-time switch and of the target's features.
InitGate == InitWith(SADNodes \cup DotProdNodes, AnyCgs, OneVIn, OneXIn, NoMem)

SpecGate == InitGate /\ [][Next]_vars

\* Operand values of an accumulate node: accumulator, a, b.
AccumVIns ==
  {<<acc, a, b>> : acc \in UniformVecs(AccVals), a \in HotVecs(ByteVals),
                   b \in UniformVecs(ByteVals)}

\* The dot product nodes with 8-bit inputs, with the fused instruction emitted
\* and with the portable sequence emitted.
DotProdNodes8 == {n \in DotProdNodes : n.aType \in {"Uint8", "Int8"}}

InitDot ==
  InitWith(DotProdNodes8,
           {[emitDotProd |-> e, hasDotProd |-> TRUE] : e \in BOOLEAN},
           AccumVIns, OneXIn, NoMem)

SpecDot == InitDot /\ [][Next]_vars

\* The sum-of-absolute-differences nodes the emitter has a case for.
SADNodesEmitted ==
  {n \in SADNodes :
     /\ n.bType = n.aType
     /\ ~InstructionCodeGenerator_VisitVecSADAccumulate(n, NoAlloc).fatal}

InitSAD == InitWith(SADNodesEmitted, OneCg, AccumVIns, OneXIn, NoMem)

SpecSAD == InitSAD /\ [][Next]_vars

\* The logical-not nodes on vectors of boolean lanes.
BoolVIns == {<<a, JunkVec, JunkVec>> : a \in HotVecs({0, 1})}

InitNot == InitWith(SimpleNodes({"VecNot"}), BuiltCgs, BoolVIns, OneXIn, NoMem)

SpecNot == InitNot /\ [][Next]_vars

\* The string character loads, index in a register or a constant, from
\* compressed and uncompressed strings.
StringLoadNodes ==
  {[MkNode("VecLoad", t, t) EXCEPT !.isStringCharAt = TRUE, !.in1Const = c[1], !.imm = c[2]] :
     t \in {"Uint16", "Int16"},
     c \in {<<FALSE, 0>>} \cup {<<TRUE, i>> : i \in 0..MaxIndex}}

InitLoad ==
  InitWith(StringLoadNodes, BuiltCgs, OneVIn, {<<0, i>> : i \in 0..MaxIndex}, MemImages)

SpecLoad == InitLoad /\ [][Next]_vars

\* ------------------------------------------------------------------------
\* Properties.

\* The node's code was emitted without LOG(FATAL).
Emitted == pc \in {"emitted", "running", "done"}

\* The register of input 0 (the accumulator of an accumulate node).
AccReg == loc.in[1].r

\* The sum of the first k lanes f[0] .. f[k - 1], each w bytes, modulo 2^(8w).
RECURSIVE SumLanesUpTo(_, _, _)
SumLanesUpTo(f, k, w) ==
  IF k = 0 THEN Zeros(w) ELSE AddB(SumLanesUpTo(f, k - 1, w), f[k - 1])

\* The sum of the lanes of es bytes of vector v, modulo 2^(8 es).
LaneSum(v, es) ==
  SumLanesUpTo([i \in LaneIdx(es) |-> Lane(v, es, i)], kQRegSizeInBytes \div es, es)

\* The exact difference a - b of two lanes read as signed (unsigned) numbers,
\* in 2w bytes, w at least the lanes' width.
Diff(signed, a, b, w) == SubB(Ext(signed, a, 2 * w), Ext(signed, b, 2 * w))

\* |a - b| of two lanes read as signed (unsigned) numbers, modulo 2^(8w).
AbsDiffW(signed, a, b, w) == SubSeq(AbsB(Diff(signed, a, b, w)), 1, w)

\* a - b fits a signed lane of w bytes.
DiffFits(a, b, w) == SExt(SubSeq(Diff(TRUE, a, b, w), 1, w), 2 * w) = Diff(TRUE, a, b, w)

\* The sum over the es-byte lanes of a and b of |a_i - b_i|, modulo 2^(8w).
SumAbsDiff(signed, a, b, es, w) ==
  SumLanesUpTo([i \in LaneIdx(es) |-> AbsDiffW(signed, Lane(a, es, i), Lane(b, es, i), w)],
               kQRegSizeInBytes \div es, w)

\* ---- C1

DotProd8Done == pc = "done" /\ node.kind = "VecDotProd" /\ Size(node.aType) = 1

\* What the fused instruction (Udot / Sdot) leaves in the accumulator.
FusedDot == Dot(~node.zeroExt, vin[1], vin[2], vin[3])

\* The product of byte lanes k of a and b, in 4 bytes.
ByteProduct(k) ==
  FromInt(Val(~node.zeroExt, Lane(vin[2], 1, k)) * Val(~node.zeroExt, Lane(vin[3], 1, k)), 4)

C2_AcceptedThenEmitted == pc # "emit_fatal"

\* ---- C3

SADSameWidthDone ==
  /\ pc = "done"
  /\ node.kind = "VecSADAccumulate"
  /\ node.aType = node.packed
  /\ node.packed \in {"Int32", "Int64"}

\* C3 as stated: in the same-width cases every accumulator lane ends as
\* acc_i + |a_i - b_i| modulo 2^w, |a_i - b_i| the true mathematical value.
C3_TrueAbsDiff ==
  SADSameWidthDone =>
    LET w == Size(node.packed)
    IN  \A i \in LaneIdx(w) :
          Lane(V[AccReg], w, i) =
            AddB(Lane(vin[1], w, i),
                 AbsDiffW(TRUE, Lane(vin[2], w, i), Lane(vin[3], w, i), w))

\* C3 amended: every accumulator lane ends as acc_i + abs((a_i - b_i) mod 2^w)
\* modulo 2^w, the subtraction and the absolute value wrapping in the lane;
\* that is acc_i + |a_i - b_i| whenever a_i - b_i fits a signed w-bit lane.
C3_WrappedAbsDiff ==
  SADSameWidthDone =>
    LET w == Size(node.packed)
    IN  \A i \in LaneIdx(w) :
          LET a == Lane(vin[2], w, i)
              b == Lane(vin[3], w, i)
              r == Lane(V[AccReg], w, i)
          IN  /\ r = AddB(Lane(vin[1], w, i), AbsB(SubB(a, b)))
              /\ DiffFits(a, b, w) => r = AddB(Lane(vin[1], w, i), AbsDiffW(TRUE, a, b, w))

\* A same-width node has run on lanes whose difference does not fit the lane.
C3_Witness ==
  /\ SADSameWidthDone
  /\ \E i \in LaneIdx(Size(node.packed)) :
       ~DiffFits(Lane(vin[2], Size(node.packed), i), Lane(vin[3], Size(node.packed), i),
                 Size(node.packed))

\* ---- C4

SADWideningDone(types) ==
  /\ pc = "done"
  /\ node.kind = "VecSADAccumulate"
  /\ node.aType \in types
  /\ Size(node.packed) > Size(node.aType)

\* C4: in the widening cases with signed inputs, the sum of the accumulator
\* lanes after the sequence is the sum before plus the sum over every input
\* lane of |a_i - b_i|, modulo 2^w.
C4_SignedWideningSum ==
  SADWideningDone({"Int8", "Int16", "Int32"}) =>
    LaneSum(V[AccReg], Size(node.packed)) =
      AddB(LaneSum(vin[1], Size(node.packed)),
           SumAbsDiff(TRUE, vin[2], vin[3], Size(node.aType), Size(node.packed)))

\* The three-step widening (Int8 into Int64) has run with a difference in the
\* topmost input lane only.
C4_Witness ==
  /\ SADWideningDone({"Int8"})
  /\ node.packed = "Int64"
  /\ vin[2][kQRegSizeInBytes] # vin[3][kQRegSizeInBytes]
  /\ vin[2][1] = vin[3][1]

\* ---- C5

\* C5 as stated: with Uint8 or Uint16 inputs the accumulated total is the
\* total before plus the sum of |a_i - b_i|, a_i and b_i read as unsigned.
C5_UnsignedSum ==
  (/\ pc = "done"
   /\ node.kind = "VecSADAccumulate"
   /\ node.aType \in {"Uint8", "Uint16"}) =>
    LaneSum(V[AccReg], Size(node.packed)) =
      AddB(LaneSum(vin[1], Size(node.packed)),
           SumAbsDiff(FALSE, vin[2], vin[3], Size(node.aType), Size(node.packed)))

\* ---- C6

\* The planner set the slot the emitter read, with the class it was read as.
SlotSet(rd) ==
  CASE rd[1] = "in" ->
         rd[2] < Len(locations.in) /\ ClassOf(locations.in[rd[2] + 1]) = rd[3]
    [] rd[1] = "out" ->
         \/ ClassOf(locations.out) = rd[3]
         \/ /\ locations.out = SameAsFirst
            /\ Len(locations.in) > 0
            /\ ClassOf(locations.in[1]) = rd[3]
    [] rd[1] = "temp" -> rd[2] < locations.temps
    [] OTHER -> FALSE

\* C6: where the planner and the emitter both succeed, every slot the
\* emitter read was set by the planner with the class the emitter read it
\* as, and where the emitter asserted output == input 0 the planner declared
\* the output SameAsFirstInput.
C6_SlotsConsistent ==
  Emitted =>
    /\ \A rd \in emitted.reads : SlotSet(rd)
    /\ emitted.same => locations.out = SameAsFirst

\* An emitter that asserts output == input 0 and reads four temporaries ran.
C6_Witness ==
  /\ Emitted
  /\ emitted.same
  /\ RTemp(3) \in emitted.reads
  /\ RIn(2, "V") \in emitted.reads

\* ---- C7

\* The indexes of the temporaries the emitter read.
TempsRead == {rd[2] : rd \in {x \in emitted.reads : x[1] = "temp"}}

\* C7: for the sum-of-absolute-differences nodes the emitter supports and
\* for the dot product nodes, under every value of the switch and of the
\* target's features, the temporaries the emitter reads are exactly the ones
\* the planner added.
C7_TempsAgree ==
  (Emitted /\ node.kind \in {"VecSADAccumulate", "VecDotProd"}) =>
    TempsRead = 0 .. locations.temps - 1

\* A dot product was emitted with the switch on for a target without the
\* extension, through the one temporary the planner added.
C7_Witness ==
  /\ Emitted
  /\ node.kind = "VecDotProd"
  /\ cg.emitDotProd /\ ~cg.hasDotProd
  /\ locations.temps = 1
  /\ TempsRead = {0}

\* ---- C8

SADPlanned == pc = "planned" /\ node.kind = "VecSADAccumulate"

\* C8 as stated: the planner reserves zero, two or four temporaries.
C8_ZeroTwoOrFour == SADPlanned => locations.temps \in {0, 2, 4}

\* The number of doublings from the width of a to the width of t.
ExtensionSteps(a, t) ==
  CASE Size(a) = 0 -> 0
    [] Size(t) = 2 * Size(a) -> 1
    [] Size(t) = 4 * Size(a) -> 2
    [] Size(t) = 8 * Size(a) -> 3
    [] OTHER -> 0

\* C8 amended: the planner reserves one temporary when input and accumulator
\* are both Int32 or both Int64, 2 * (k - 1) temporaries when the accumulator
\* is k >= 2 doublings wider than an 8- or 16-bit input, and none otherwise:
\* zero, one, two or four.
C8_TempsBySteps ==
  SADPlanned =>
    LET k == ExtensionSteps(node.aType, node.packed)
    IN  /\ locations.temps \in {0, 1, 2, 4}
        /\ locations.temps =
             IF node.aType \in {"Int32", "Int64"} /\ node.packed = node.aType THEN 1
             ELSE IF node.aType \in {"Uint8", "Int8", "Uint16", "Int16"} /\ k >= 2
                  THEN 2 * (k - 1)
                  ELSE 0

\* A same-width node was planned with its one temporary.
C8_Witness == SADPlanned /\ node.aType = "Int64" /\ locations.temps = 1

\* ---- C9

BoolNotDone == pc = "done" /\ node.kind = "VecNot" /\ node.packed = "Bool"

StringLoadDone ==
  /\ pc = "done"
  /\ node.kind = "VecLoad"
  /\ node.isStringCharAt
  /\ node.packed \in {"Uint16", "Int16"}

\* The positions in the trace at which a vector load ran.
LoadsRun == {k \in 1..Len(trace) : emitted.code[trace[k]].op \in {"LdrD", "LdrQ"}}

\* The index operand of the load and the address of the string's value.
LoadIndex == IF node.in1Const THEN node.imm ELSE xin[2]

\* C10: the code tests bit 0 of the count field; a compressed string (bit 0
\* clear) has 8 bytes loaded and zero-extended into the 8 16-bit lanes, an
\* uncompressed one has 16 bytes loaded; exactly one load runs, the run ends
\* at the label done, and the output register holds the loaded data in all of
\* its 128 bits.
C10_StringLoad ==
  StringLoadDone =>
    LET compressed == mem[xin[1] + CountOffset] % 2 = 0
        value == xin[1] + ValueOffset
        last == emitted.code[trace[Len(trace)]]
    IN  /\ Cardinality(LoadsRun) = 1
        /\ \A k \in LoadsRun :
             emitted.code[trace[k]].op = (IF compressed THEN "LdrD" ELSE "LdrQ")
        /\ last.op = "Bind" /\ last.lbl = "done"
        /\ emitted.code[trace[2]].op = "Tbnz" /\ emitted.code[trace[2]].imm = 0
        /\ V[loc.out.r] =
             IF compressed
             THEN FromLanes(2, [i \in LaneIdx(2) |-> <<mem[value + LoadIndex + i], 0>>])
             ELSE Bytes(mem, value + 2 * LoadIndex, kQRegSizeInBytes)

\* A compressed string was loaded at a non-zero index held in a register.
C10_Witness ==
  /\ StringLoadDone
  /\ mem[xin[1] + CountOffset] % 2 = 0
  /\ ~node.in1Const
  /\ xin[2] > 0

\* ------------------------------------------------------------------------
\* C11: the scratch scope of the memory routines.

\* The loads and stores of every packed type, and the spill moves.
InitScope == InitWith(MemNodes, OneCg, OneVIn, OneXIn, NoMem)

SpecScope == InitScope /\ [][NextMove]_vars

\* VisitVecLoad, VisitVecStore or MoveToSIMDStackSlot has returned.
ScopeRoutineReturned ==
  \/ pc = "moved"
  \/ Emitted /\ node.kind \in {"VecLoad", "VecStore"}

\* The registers acquired from the scratch lists and not given back.
Unreleased(e) == (e.entry.x \ e.pool.x) \cup (e.entry.v \ e.pool.v)

NarrowTypes == {"Uint8", "Int8", "Uint16", "Int16"}

LaneVals == {ByteAt(k) : k \in 1..NumLaneVals}

\* Operand pairs: a has one byte of its first or last 16-bit lane set apart,
\* b is uniform.
BinVIns ==
  {<<Vec(h, v, f), Uniform(w), JunkVec>> :
     h \in {1, 2, kQRegSizeInBytes}, v \in LaneVals, f \in LaneVals, w \in LaneVals}

SaturationNodes ==
  {MkNode(k, t, t) : k \in {"VecSaturationAdd", "VecSaturationSub"}, t \in NarrowTypes}

InitSat == InitWith(SaturationNodes, OneCg, BinVIns, OneXIn, NoMem)

SpecSat == InitSat /\ [][Next]_vars

\* The declared element type's signedness and range.
IsSignedType(t) == t \in {"Int8", "Int16", "Int32", "Int64"}
TypeMin(t) == IF IsSignedType(t) THEN 0 - 2 ^ (8 * Size(t) - 1) ELSE 0
TypeMax(t) == IF IsSignedType(t) THEN 2 ^ (8 * Size(t) - 1) - 1 ELSE 2 ^ (8 * Size(t)) - 1

Clamp(v, lo, hi) == IF v < lo THEN lo ELSE IF v > hi THEN hi ELSE v

\* Lane i of operand k of the node, as a value of the declared element type.
OperandVal(k, i) == Val(IsSignedType(node.packed), Lane(vin[k], Size(node.packed), i))

\* Lane i of the node's result register.
ResultLane(i) == Lane(V[loc.out.r], Size(node.packed), i)

SaturationDone ==
  pc = "done" /\ node.kind \in {"VecSaturationAdd", "VecSaturationSub"}

\* C12: for Uint8, Int8, Uint16 and Int16 lanes, each result lane of a
\* saturating add (subtract) is the exact sum (difference) of the operand
\* lanes, read as values of the declared type, clamped to that type's range.
C12_Saturates ==
  SaturationDone =>
    /\ emitted.code[1].op \in {"Uqadd", "Uqsub"} <=> ~IsSignedType(node.packed)
    /\ emitted.code[1].op \in {"Sqadd", "Sqsub"} <=> IsSignedType(node.packed)
    /\ \A i \in LaneIdx(Size(node.packed)) :
         LET exact == IF node.kind = "VecSaturationAdd"
                      THEN OperandVal(1, i) + OperandVal(2, i)
                      ELSE OperandVal(1, i) - OperandVal(2, i)
         IN  ResultLane(i) =
               FromInt(Clamp(exact, TypeMin(node.packed), TypeMax(node.packed)),
                       Size(node.packed))

\* An unsigned lane saturated at the top of its range where the same bits read
\* as signed would not have: 255 + 1 in a Uint8 lane.
C12_Witness ==
  /\ SaturationDone /\ node.kind = "VecSaturationAdd" /\ node.packed = "Uint8"
  /\ OperandVal(1, 0) = 255 /\ OperandVal(2, 0) = 1
  /\ ResultLane(0) = <<255>>

\* ------------------------------------------------------------------------
\* C13: halving addition.

HalvingNodes == {n \in HalvingAddNodes : n.packed \in NarrowTypes}

InitHalve == InitWith(HalvingNodes, OneCg, BinVIns, OneXIn, NoMem)

SpecHalve == InitHalve /\ [][Next]_vars

HalvingDone == pc = "done" /\ node.kind = "VecHalvingAdd"

\* The exact sum of lane i of the two operands.
ExactSum(i) == OperandVal(1, i) + OperandVal(2, i)

\* C13: for Uint8, Int8, Uint16 and Int16 lanes the rounding instruction is
\* emitted exactly when the node's rounded flag is set, and each result lane
\* is floor((a + b) / 2) of the exact sum, plus one when the flag is set and
\* the sum is odd (which is ceil((a + b) / 2)): no carry out of the lane is
\* lost.
C13_HalvingAdd ==
  HalvingDone =>
    /\ emitted.code[1].op \in {"Urhadd", "Srhadd"} <=> node.rounded
    /\ emitted.code[1].op \in {"Uhadd", "Urhadd"} <=> ~IsSignedType(node.packed)
    /\ \A i \in LaneIdx(Size(node.packed)) :
         ResultLane(i) =
           FromInt((ExactSum(i) \div 2)
                   + (IF node.rounded /\ ExactSum(i) % 2 = 1 THEN 1 ELSE 0),
                   Size(node.packed))

\* A rounded halving add whose exact sum is odd and does not fit the lane:
\* 255 + 128 = 383 in a Uint8 lane, halved to the ceiling 192.
C13_Witness ==
  /\ HalvingDone /\ node.rounded /\ node.packed = "Uint8"
  /\ OperandVal(1, 0) = 255 /\ OperandVal(2, 0) = 128
  /\ ResultLane(0) = <<192>>

\* ------------------------------------------------------------------------
\* C14: the dot product gate.

\* The code generator is the one built from the source: the switch at its
\* pinned value.
AsBuilt == cg.emitDotProd = kArm64EmitDotProdInstructions

DotProd8 == node.kind = "VecDotProd" /\ Size(node.aType) = 1

\* The emitted code holds the fused instruction.
EmitsFused == \E i \in 1..Len(emitted.code) : emitted.code[i].op \in {"Udot", "Sdot"}

\* C14: the fused dot product is emitted exactly for an 8-bit dot product
\* node when the build-time switch is on and the target has the extension;
\* the planner reserves the scratch vector register exactly when the emitter
\* will not emit the fused form.  With the switch as built (off), whatever the
\* target's capabilities: the gate is false, no Udot / Sdot is emitted, and
\* every 8-bit dot product node is planned with exactly one temporary.
C14_GateOff ==
  /\ ShouldEmitDotProductInstructions(cg) <=> (cg.emitDotProd /\ cg.hasDotProd)
  /\ AsBuilt => ~ShouldEmitDotProductInstructions(cg) /\ ~EmitsFused
  /\ DotProd8 /\ pc \notin {"node", "plan_fatal"} =>
       /\ locations.temps = IF cg.emitDotProd /\ cg.hasDotProd THEN 0 ELSE 1
       /\ AsBuilt => locations.temps = 1
  /\ DotProd8 /\ Emitted =>
       /\ EmitsFused <=> (cg.emitDotProd /\ cg.hasDotProd)
       /\ EmitsFused <=> locations.temps = 0

\* The switch as built on a target that has the extension: the portable
\* sequence was emitted for an 8-bit node, through its one temporary.
C14_Witness ==
  /\ AsBuilt /\ cg.hasDotProd /\ DotProd8 /\ Emitted
  /\ locations.temps = 1
  /\ emitted.code[1].op \in {"Umull", "Smull"}
  /\ emitted.code[1].rd = loc.temps[1]

\* ------------------------------------------------------------------------
\* C15: the vector length assertions of the emission routines.

\* The vector lengths a node may claim.
VLens == {2, 4, 8, 16}

\* Every node, with every vector length, matching its packed type or not.
AnyLengthNodes == {[n EXCEPT !.vlen = l] : n \in AllNodes, l \in VLens}

InitLen == InitWith(AnyLengthNodes, OneCg, OneVIn, OneXIn, NoMem)

SpecLen == InitLen /\ [][Next]_vars

\* The emission routine returned after handing at least one instruction to
\* the assembler.
EmittedSome == Emitted /\ emitted.code # <<>>

\* The node's vector length is the one its packed type gives a 128-bit
\* vector.
LengthMatches == node.vlen = 16 \div Size(node.packed)

LaneAgnostic ==
  \/ node.kind \in {"VecAnd", "VecOr", "VecXor"}
  \/ node.kind = "VecNot" /\ node.packed # "Bool"

\* The loads and stores other than the compressed string load.
PlainMem ==
  /\ node.kind \in {"VecLoad", "VecStore"}
  /\ ~(node.kind = "VecLoad" /\ node.isStringCharAt /\ kUseStringCompression
       /\ node.packed \in {"Uint16", "Int16"})

AccumKinds == {"VecMultiplyAccumulate", "VecSADAccumulate", "VecDotProd"}

\* The registers the node's code writes.
Written == {emitted.code[i].rd : i \in 1..Len(emitted.code)}

\* The registers of the temporaries the planner reserved.
ReservedTemps == {loc.temps[j] : j \in 1..Len(loc.temps)}

\* C16: for a multiply-accumulate, sum-of-absolute-differences or dot product
\* node the planner declares the output SameAsFirstInput and the three inputs
\* vector registers; the emission routine asserts that the output is input
\* 0's location; and every instruction emitted writes the accumulator or a
\* temporary the planner reserved, never the register of input 1 or 2.
C16_AccumulatorOnly ==
  node.kind \in AccumKinds =>
    /\ locations.valid =>
         /\ locations.out = SameAsFirst
         /\ locations.in = <<FpuReg, FpuReg, FpuReg>>
    /\ pc \in {"emitted", "running", "done", "emit_fatal"} =>
         /\ emitted.same
         /\ loc.out = loc.in[1]
         /\ Written \subseteq {loc.in[1].r} \cup ReservedTemps
         /\ Written \cap {loc.in[2].r, loc.in[3].r} = {}

\* A same-width sum of absolute differences: its code wrote the temporary and
\* the accumulator.
C16_Witness ==
  /\ node.kind = "VecSADAccumulate" /\ node.aType = node.packed /\ Emitted
  /\ Len(loc.temps) = 1
  /\ Written = {loc.in[1].r, loc.temps[1]}

\* ------------------------------------------------------------------------
\* C17: multiply-accumulate.

\* Accumulator, left and right operands.
MulAccVIns ==
  {<<Uniform(c), Vec(h, v, f), Uniform(w)>> :
     c \in AccVals, h \in {1, 2, kQRegSizeInBytes}, v \in ByteVals, f \in ByteVals,
     w \in ByteVals}

InitMulAcc == InitWith(MultiplyAccumulateNodes, OneCg, MulAccVIns, OneXIn, NoMem)

SpecMulAcc == InitMulAcc /\ [][Next]_vars

MulAccDone == pc = "done" /\ node.kind = "VecMultiplyAccumulate"

RECURSIVE PartialProducts(_, _, _)
\* The sum, modulo 2^(8 * Len(x)), of the products of byte k of x and byte
\* j of y, each placed k + j - 2 bytes up, over the first k bytes of x.
PartialProducts(x, y, k) ==
  IF k = 0 THEN Zeros(Len(x))
  ELSE LET n == Len(x)
           row == [j \in 1..n |-> IF k + j - 1 <= n THEN x[k] * y[j] ELSE 0]
           RECURSIVE Row(_)
           Row(j) == IF j = 0 THEN Zeros(n)
                     ELSE AddB(Row(j - 1),
                               [b \in 1..n |->
                                  IF b = k + j - 1 THEN row[j] % 256
                                  ELSE IF b = k + j THEN row[j] \div 256
                                  ELSE 0])
       IN  AddB(PartialProducts(x, y, k - 1), Row(n))

\* Each lane of the accumulator is acc + left * right (kAdd) or
\* acc - left * right (kSub) modulo 2^w, w the lane width.
MulAccArithmetic ==
  MulAccDone =>
    \A i \in LaneIdx(Size(node.packed)) :
      LET es == Size(node.packed)
          acc == Lane(vin[1], es, i)
          p == PartialProducts(Lane(vin[2], es, i), Lane(vin[3], es, i), es)
      IN  Lane(V[AccReg], es, i) = IF node.opKind = "kAdd" THEN AddB(acc, p) ELSE SubB(acc, p)

\* A node of a 64-bit or floating point packed type gets no LocationSummary.
NoRecordFor64OrFloat ==
  /\ node.kind = "VecMultiplyAccumulate"
  /\ node.packed \in {"Int64", "Float32", "Float64"}
  => ~locations.valid /\ pc \in {"node", "plan_fatal"}

\* C17: a multiply-accumulate on 8, 16 or 32-bit integer lanes leaves
\* acc + left * right or acc - left * right (by the node's op kind) modulo
\* 2^w in each accumulator lane, and a node of a 64-bit or floating point
\* packed type is never given a LocationSummary and ends in a fatal abort.
C17_MulAccAndRejection == MulAccArithmetic /\ NoRecordFor64OrFloat

\* ------------------------------------------------------------------------
\* C18: reductions.

ReduceNodesWide == {n \in ReduceNodes : n.packed \in {"Int32", "Int64"}}

ReduceVIns == {<<a, JunkVec, JunkVec>> : a \in HotVecs(ByteVals)}

InitReduce == InitWith(ReduceNodesWide, OneCg, ReduceVIns, OneXIn, NoMem)

SpecReduce == InitReduce /\ [][Next]_vars

ReduceDone == pc = "done" /\ node.kind = "VecReduce"

\* x <= y as signed 32-bit lanes: by the signed high half, then the
\* unsigned low half.
SLe32(x, y) ==
  LET hx == ToInt(SubSeq(x, 3, 4))
      hy == ToInt(SubSeq(y, 3, 4))
  IN  hx < hy \/ (hx = hy /\ ToNat(SubSeq(x, 1, 2)) <= ToNat(SubSeq(y, 1, 2)))

\* The scalar the node's code left: the low es bytes of the output register,
\* the rest of the register being zero.
ScalarResult(es) == SubSeq(V[loc.out.r], 1, es)

\* C18: an Int32 reduction leaves in the scalar result the sum modulo 2^32,
\* the signed minimum or the signed maximum of the four lanes; an Int64 sum
\* leaves lane 0 + lane 1 modulo 2^64, by a pairwise add; an Int64 minimum or
\* maximum ends in a fatal abort.
C18_Reduce ==
  /\ ReduceDone /\ node.packed = "Int32" =>
       LET r == ScalarResult(4)
           lanes == {Lane(vin[1], 4, i) : i \in LaneIdx(4)}
       IN  /\ V[loc.out.r] = ZExt(r, kQRegSizeInBytes)
           /\ node.reduction = "kSum" =>
                r = LaneSum(vin[1], 4) /\ emitted.code[1].op = "Addv"
           /\ node.reduction = "kMin" => r \in lanes /\ \A x \in lanes : SLe32(r, x)
           /\ node.reduction = "kMax" => r \in lanes /\ \A x \in lanes : SLe32(x, r)
  /\ ReduceDone /\ node.packed = "Int64" =>
       /\ node.reduction = "kSum"
       /\ emitted.code[1].op = "Addp"
       /\ ScalarResult(8) = AddB(Lane(vin[1], 8, 0), Lane(vin[1], 8, 1))
       /\ V[loc.out.r] = ZExt(ScalarResult(8), kQRegSizeInBytes)
  /\ /\ node.kind = "VecReduce" /\ node.packed = "Int64" /\ node.reduction # "kSum"
     /\ pc \notin {"node", "planned", "allocated"}
     => pc = "emit_fatal" /\ emitted.code = <<>>

\* A signed minimum that an unsigned comparison would not have picked: the
\* result is a negative lane, and another lane is zero.
C18_Witness ==
  /\ ReduceDone /\ node.packed = "Int32" /\ node.reduction = "kMin"
  /\ IsNegB(ScalarResult(4))
  /\ \E i \in LaneIdx(4) : Lane(vin[1], 4, i) = Zeros(4)

\* ------------------------------------------------------------------------
\* C19: shifts by a constant.

\* The packed types the shift planner has a case for.
ShiftTypes == {"Uint8", "Int8", "Uint16", "Int16", "Int32", "Int64"}

\* The values the constant shift distance of a node may have.
ShiftDistances == {0 - 1, 0, 1, 7, 8, 9, 33}

ShiftNodesAnyDistance == {[n EXCEPT !.imm = d] : n \in ShiftNodes, d \in ShiftDistances}

ShiftVIns ==
  {<<Vec(h, v, f), JunkVec, JunkVec>> :
     h \in {1, 2, 8, kQRegSizeInBytes}, v \in ByteVals, f \in ByteVals}

InitShift == InitWith(ShiftNodesAnyDistance, OneCg, ShiftVIns, OneXIn, NoMem)

SpecShift == InitShift /\ [][Next]_vars

IsShift == node.kind \in ShiftKinds

\* The planner has a case for the packed type and constrains input 1 to the
\* constant.
ShiftPlanned ==
  IsShift /\ node.packed \in ShiftTypes /\ pc # "node" =>
    locations.valid /\ locations.in = <<FpuReg, ConstLoc>>

\* One instruction is emitted, Shl, Sshr or Ushr by the node's kind whatever
\* the signedness of the packed type, with the constant as its immediate.
ShiftEmitted ==
  IsShift /\ Emitted =>
    /\ Len(emitted.code) = 1
    /\ emitted.code[1].op = (CASE node.kind = "VecShl" -> "Shl"
                               [] node.kind = "VecShr" -> "Sshr"
                               [] OTHER -> "Ushr")
    /\ emitted.code[1].es = Size(node.packed)
    /\ emitted.code[1].imm = node.imm

\* x halved: each byte takes the low bit of the byte above it as its high
\* bit, the top byte takes fill.
HalveB(x, fill) ==
  [j \in 1..Len(x) |->
     (x[j] \div 2) + 128 * (IF j < Len(x) THEN x[j + 1] % 2 ELSE fill)]

RECURSIVE ShiftedBy(_, _, _)
\* x doubled (kind VecShl) or halved k times, the halving filling with the
\* sign bit (VecShr) or with zero (VecUShr).
ShiftedBy(kind, x, k) ==
  IF k = 0 THEN x
  ELSE LET y == ShiftedBy(kind, x, k - 1)
       IN  CASE kind = "VecShl" -> AddB(y, y)
             [] kind = "VecShr" -> HalveB(y, IF IsNegB(y) THEN 1 ELSE 0)
             [] OTHER -> HalveB(y, 0)

\* The code ran: each result lane is the operand lane shifted by the
\* constant.
ShiftResult ==
  IsShift /\ pc = "done" =>
    \A i \in LaneIdx(Size(node.packed)) :
      ResultLane(i) = ShiftedBy(node.kind, Lane(vin[1], Size(node.packed), i), node.imm)

\* The immediate handed to the assembler is one the lane width can encode.
ShiftInRange == IsShift /\ Emitted => ShiftEncodable(emitted.code[1])

\* The original statement: input 1 is constrained to the constant, Shr is an
\* arithmetic and UShr a logical right shift by it, and the constant is
\* non-negative and within the range the lane width can encode.
C19_ShiftInRange == ShiftPlanned /\ ShiftEmitted /\ ShiftResult /\ ShiftInRange

\* C19: for Uint8, Int8, Uint16, Int16, Int32 and Int64 the planner
\* constrains input 1 to the constant; the emitter hands the constant's value
\* unchanged to one Shl (Shl), Sshr (Shr, arithmetic) or Ushr (UShr, logical)
\* whatever the signedness of the packed type; when the code runs each
\* result lane is the operand lane shifted by the constant.
C19_ShiftByConstant == ShiftPlanned /\ ShiftEmitted /\ ShiftResult

\* An arithmetic right shift of an unsigned packed type: the lane's top bit
\* was set and is set in the result.
C19_Witness ==
  /\ pc = "done" /\ node.kind = "VecShr" /\ node.packed = "Uint16" /\ node.imm = 9
  /\ IsNegB(Lane(vin[1], 2, 0))
  /\ ResultLane(0)[2] = 255

\* ------------------------------------------------------------------------
\* C20: minimum and maximum.

MinMaxNodes == SimpleNodes({"VecMin", "VecMax"})

InitMinMax == InitWith(MinMaxNodes, OneCg, BinVIns, OneXIn, NoMem)

SpecMinMax == InitMinMax /\ [][Next]_vars

IsMinMax == node.kind \in {"VecMin", "VecMax"}

\* x <= y as unsigned 32-bit lanes: by the high half, then the low half.
ULe32(x, y) ==
  LET hx == ToNat(SubSeq(x, 3, 4))
      hy == ToNat(SubSeq(y, 3, 4))
  IN  hx < hy \/ (hx = hy /\ ToNat(SubSeq(x, 1, 2)) <= ToNat(SubSeq(y, 1, 2)))

RECURSIVE MagLe(_, _)
\* x <= y as unsigned numbers, most significant byte last.
MagLe(x, y) ==
  IF x = <<>> THEN TRUE
  ELSE LET n == Len(x)
       IN  x[n] < y[n] \/ (x[n] = y[n] /\ MagLe(SubSeq(x, 1, n - 1), SubSeq(y, 1, n - 1)))

Magnitude(x) == [j \in 1..Len(x) |-> IF j = Len(x) THEN x[j] % 128 ELSE x[j]]

\* x <= y as numbers of 8 * Len(x) bits with a sign bit and a magnitude, the
\* negative zero below the positive one: the order of floating point lanes
\* that are not NaNs.
FloatLe(x, y) ==
  CASE IsNegB(x) /\ ~IsNegB(y) -> TRUE
    [] ~IsNegB(x) /\ IsNegB(y) -> FALSE
    [] IsNegB(x) -> MagLe(Magnitude(y), Magnitude(x))
    [] OTHER -> MagLe(Magnitude(x), Magnitude(y))

\* x <= y in the order the packed type t declares.
TypeLe(t, x, y) ==
  CASE t \in {"Uint8", "Int8", "Uint16", "Int16"} ->
         Val(IsSignedType(t), x) <= Val(IsSignedType(t), y)
    [] t = "Uint32" -> ULe32(x, y)
    [] t = "Int32" -> SLe32(x, y)
    [] OTHER -> FloatLe(x, y)

\* r is the minimum (maximum) of a and b in the order of t; for floating
\* point lanes a NaN when a or b is one.
IsMinMaxOf(t, max, r, a, b) ==
  IF t \in {"Float32", "Float64"} /\ (IsNaN(a) \/ IsNaN(b)) THEN IsNaN(r)
  ELSE /\ r \in {a, b}
       /\ IF max THEN TypeLe(t, a, r) /\ TypeLe(t, b, r)
          ELSE TypeLe(t, r, a) /\ TypeLe(t, r, b)

\* The mnemonic family the emitter has for the packed type.
MinMaxFamily(t) ==
  CASE t \in {"Uint8", "Uint16", "Uint32"} -> {"Umin", "Umax"}
    [] t \in {"Int8", "Int16", "Int32"} -> {"Smin", "Smax"}
    [] t \in {"Float32", "Float64"} -> {"Fmin", "Fmax"}
    [] OTHER -> {}

\* The locations of a two-operand node: inputs in v0 and v1, output in v2.
BinLoc ==
  [in |-> <<[k |-> "V", r |-> 0], [k |-> "V", r |-> 1]>>, out |-> [k |-> "V", r |-> 2],
   temps |-> <<>>]

\* What the node's emission routine emits on BinLoc, and what that code
\* leaves in v2 when v0 and v1 hold the node's operands.
OnBinLoc == InstructionCodeGenerator_Visit(node, BinLoc, cg)

BinLocResult ==
  VecResult(OnBinLoc.code[1],
            [r \in VRegs |-> IF r = 0 THEN vin[1] ELSE IF r = 1 THEN vin[2] ELSE JunkVec])

\* C20: for every packed type the min / max emitter has a case for, the
\* instruction is of the unsigned family for Uint8, Uint16 and Uint32, of the
\* signed family for Int8, Int16 and Int32, and the floating point one for
\* Float32 and Float64, and each result lane is the minimum (maximum) of the
\* operand lanes in the order of the declared type; an Int64 node ends in a
\* fatal abort.  (Uint32 is rejected by the planner, so its emitter case is
\* applied to BinLoc directly.)
C20_MinMax ==
  IsMinMax =>
    /\ MinMaxFamily(node.packed) # {} =>
         /\ ~OnBinLoc.fatal /\ Len(OnBinLoc.code) = 1
         /\ OnBinLoc.code[1].op \in MinMaxFamily(node.packed)
         /\ OnBinLoc.code[1].op \in {"Umax", "Smax", "Fmax"} <=> node.kind = "VecMax"
         /\ \A i \in LaneIdx(Size(node.packed)) :
              IsMinMaxOf(node.packed, node.kind = "VecMax",
                         Lane(BinLocResult, Size(node.packed), i),
                         Lane(vin[1], Size(node.packed), i),
                         Lane(vin[2], Size(node.packed), i))
    /\ MinMaxFamily(node.packed) = {} => OnBinLoc.fatal /\ OnBinLoc.code = <<>>
    /\ node.packed = "Int64" /\ pc \notin {"node", "planned", "allocated"} =>
         pc = "emit_fatal"
    /\ pc = "done" =>
         /\ emitted.code[1].op \in MinMaxFamily(node.packed)
         /\ \A i \in LaneIdx(Size(node.packed)) :
              IsMinMaxOf(node.packed, node.kind = "VecMax", ResultLane(i),
                         Lane(vin[1], Size(node.packed), i),
                         Lane(vin[2], Size(node.packed), i))

\* An unsigned minimum that a signed comparison would have got wrong: the
\* lanes are 255 and 1 as Uint8, and the result is 1.
C20_Witness ==
  /\ pc = "done" /\ node.kind = "VecMin" /\ node.packed = "Uint8"
  /\ OperandVal(1, 0) = 255 /\ OperandVal(2, 0) = 1
  /\ ResultLane(0) = <<1>>

\* ------------------------------------------------------------------------
\* Scalar inputs of replicate-scalar and set-scalars.

ScalarInputKinds == {"VecReplicateScalar", "VecSetScalars"}

\* The planner's condition for a constant slot: an encodable constant for
\* replicate-scalar, a zero bit pattern for set-scalars.
ConstantScalar ==
  IF node.kind = "VecReplicateScalar" THEN node.in0Const /\ node.in0Enc ELSE node.in0Zero

\* The register class the planner asks for otherwise.
ScalarRegister == IF node.packed \in {"Float32", "Float64"} THEN FpuReg ELSE GpReg

\* The instruction that moves the scalar into the vector is the last one
\* emitted (set-scalars zeroes the destination before it).
ScalarMove == emitted.code[Len(emitted.code)]

OutsideCases ==
  CASE node.kind \in {"VecSaturationAdd", "VecSaturationSub", "VecHalvingAdd"} ->
         node.packed \notin {"Uint8", "Int8", "Uint16", "Int16"}
    [] node.kind = "VecMul" -> node.packed \in {"Int64", "Bool"}
    [] node.kind = "VecDiv" -> node.packed \notin {"Float32", "Float64"}
    [] node.kind = "VecAbs" -> node.packed \in {"Bool", "Uint8", "Uint16", "Uint32", "Uint64"}
    [] node.kind \in ShiftKinds -> node.packed \in {"Bool", "Float32", "Float64"}
    [] node.kind = "VecCnv" -> <<node.aType, node.packed>> # <<"Int32", "Float32">>
    [] OTHER -> FALSE

\* C22: the emitters' support matrix.  For a saturating add or subtract or a
\* halving add of a type other than Uint8, Int8, Uint16, Int16, a multiply of
\* Int64 or Bool, a divide of any type but the floating point ones, an
\* absolute value of Bool or an unsigned type, a shift of Bool or a floating
\* point type, and a conversion other than Int32 to Float32, the emission
\* routine ends in LOG(FATAL) whatever summary it is given, and no run of the
\* compiler has such a node emitted.
C22_SupportMatrix ==
  OutsideCases => InstructionCodeGenerator_Visit(node, loc, cg).fatal /\ ~Emitted

\* The planner accepted a multiply of Int64 lanes and the emitter aborted on
\* it.
C22_Witness ==
  /\ node.kind = "VecMul" /\ node.packed = "Int64"
  /\ pc = "emit_fatal" /\ emitted.fatal

\* ------------------------------------------------------------------------
\* Moves between SIMD stack slots.

NumStackSeeds == 5

\* A frame of three 16 byte slots.
StackImage(seed) == [a \in 0 .. 3 * kQRegSizeInBytes - 1 |-> MemByte(seed, a)]

StackImages == {StackImage(seed) : seed \in 1..NumStackSeeds}

InitSpill == InitWith(SpillMoves, OneCg, OneVIn, OneXIn, StackImages)

SpecSpill == InitSpill /\ [][NextSpill]_vars

\* The frame entry with the 16 bytes at source copied to destination.
SlotCopied(entry, destination, source) ==
  [a \in DOMAIN entry |->
     IF a >= destination /\ a < destination + kQRegSizeInBytes
     THEN entry[source + (a - destination)] ELSE entry[a]]

\* C23: a move from one SIMD stack slot to another that does not overlap it.
\* Whether the scratch vector list was empty on entry (two 8 byte moves
\* through a general-purpose scratch register, at offsets 0 and 8) or not
\* (one 16 byte move through a vector scratch register), when the code has
\* run the frame is the frame on entry with the destination's 16 bytes equal
\* to the source's, the source slot and everything else unchanged: the same
\* memory on both paths.
C23_StackToStack ==
  pc = "spilled" /\ node.source.kind = "SIMDStackSlot" =>
    \E seed \in 1..NumStackSeeds :
      mem = SlotCopied(StackImage(seed), node.destination.index, node.source.index)

\* The move went through a general-purpose scratch register and changed the
\* upper half of the destination.
C23_Witness ==
  /\ pc = "spilled" /\ node.source.kind = "SIMDStackSlot"
  /\ emitted.entry.v = {} /\ Len(trace) = 4
  /\ \E seed \in 1..NumStackSeeds :
       /\ Bytes(mem, node.source.index, kQRegSizeInBytes)
            = Bytes(StackImage(seed), node.source.index, kQRegSizeInBytes)
       /\ mem[node.destination.index + kArm64WordSize]
            # StackImage(seed)[node.destination.index + kArm64WordSize]

\* ------------------------------------------------------------------------
\* The unsupported kinds.

\* C24: a predicate-set-all, predicate-while, predicate-condition or and-not
\* node of any packed type: the planner ends in LOG(FATAL) and attaches no
\* LocationSummary, so the run stops there, and the emission routine, on
\* whatever summary, ends in LOG(FATAL) with no instruction emitted.
C24_NoPredicates ==
  node.kind \in UnsupportedKinds =>
    /\ pc \in {"node", "plan_fatal"}
    /\ ~LocationsBuilder_Visit(node, cg).valid /\ ~locations.valid
    /\ LET e == InstructionCodeGenerator_Visit(node, loc, cg)
       IN  e.fatal /\ e.code = <<>>
    /\ emitted.code = <<>>

\* The planner aborted on a predicate-while node.
C24_Witness == node.kind = "VecPredWhile" /\ node.packed = "Int32" /\ pc = "plan_fatal"

\* ------------------------------------------------------------------------
\* The dot product's sum, for 8-bit and 16-bit inputs.

DotProdNodesNarrow == {n \in DotProdNodes : n.aType \in NarrowTypes}

InitDotNarrow ==
  InitWith(DotProdNodesNarrow,
           {[emitDotProd |-> e, hasDotProd |-> TRUE] : e \in BOOLEAN},
           AccumVIns, OneXIn, NoMem)

SpecDotNarrow == InitDotNarrow /\ [][Next]_vars

DotProdDone == pc = "done" /\ node.kind = "VecDotProd"

\* The product of 16-bit lanes k of a and b, in 4 bytes: of the signed values,
\* or, unsigned, a times the low byte of b plus 256 times a times its high
\* byte.
WideProduct(k) ==
  LET a == Lane(vin[2], 2, k)
      b == Lane(vin[3], 2, k)
  IN  IF node.zeroExt
      THEN AddB(FromNat(ToNat(a) * b[1], 4),
                <<0>> \o SubSeq(FromNat(ToNat(a) * b[2], 4), 1, 3))
      ELSE FromInt(ToInt(a) * ToInt(b), 4)

\* The product of lanes k of a and b, in 4 bytes.
InputProduct(k) == IF Size(node.aType) = 1 THEN ByteProduct(k) ELSE WideProduct(k)

\* The sum of the accumulator's lanes before the node plus the products of
\* all lanes of a and b, modulo 2^32.
DotProdTotal ==
  LET count == kQRegSizeInBytes \div Size(node.aType)
  IN  AddB(LaneSum(vin[1], 4),
           SumLanesUpTo([k \in 0 .. count - 1 |-> InputProduct(k)], count, 4))

\* C25: the dot product's lane sum.  For 8-bit inputs, signed and unsigned,
\* the sum modulo 2^32 of the four accumulator lanes after the portable
\* sequence and after the fused instruction are both the sum of the
\* accumulator's lanes before plus the 16 products a_i * b_i; for 16-bit
\* inputs the widening multiply-accumulate pair adds each of the 8 products
\* once, products i and i + 4 to lane i.
C25_DotProdSum ==
  DotProdDone =>
    /\ LaneSum(V[AccReg], 4) = DotProdTotal
    /\ Size(node.aType) = 1 => LaneSum(FusedDot, 4) = DotProdTotal
    /\ Size(node.aType) = 2 =>
         \A i \in LaneIdx(4) :
           Lane(V[AccReg], 4, i) =
             AddB(AddB(Lane(vin[1], 4, i), InputProduct(i)), InputProduct(i + 4))

\* The multiply-accumulate pair ran on unsigned 16-bit lanes with a product
\* in the upper half to add.
C25_Witness ==
  /\ DotProdDone /\ node.aType = "Uint16" /\ node.zeroExt
  /\ InputProduct(7) # Zeros(4)
  /\ Lane(V[AccReg], 4, 3) # Lane(vin[1], 4, 3)

\* ------------------------------------------------------------------------
\* Emitter cases behind the planner.

\* The emission routine of the node's kind has a case for the node (it does
\* not end in LOG(FATAL)); which case it takes does not depend on the
\* registers of the summary.
EmitterHandles == ~InstructionCodeGenerator_Visit(node, loc, cg).fatal

PlannerAccepts == LocationsBuilder_Visit(node, cg).valid

\* C26: emitter support implies planner acceptance.  For every kind and
\* packed type the emission routine handles without LOG(FATAL), the planner
\* of that kind accepts the packed type, so that no emitter case lies behind
\* a planner abort; in particular the Uint32 cases of min and max against
\* the binary-operation location template.
C26_EmitterImpliesPlanner == EmitterHandles => PlannerAccepts

\* ------------------------------------------------------------------------
\* Set-scalars.

\* The scalar in input 0 when it is in a register; a zero constant has none.
ScalarXIns == {<<v, 0>> : v \in {1, 255, 258, 196613}}

InitSet == InitWith(SetScalarsNodes, OneCg, OneVIn, ScalarXIns, NoMem)

SpecSet == InitSet /\ [][Next]_vars

SetScalarsAccepted == node.kind = "VecSetScalars" /\ pc \notin {"node", "plan_fatal"}

\* When the code has run, lane 0 of the output is the scalar (zero for a zero
\* bit pattern) and every other lane is zero; for a zero bit pattern the code
\* is the zeroing Movi alone and input 0 is not read.
SetScalarsResult ==
  /\ SetScalarsAccepted /\ pc = "done" =>
        V[loc.out.r] = FromNat(IF node.in0Zero THEN 0 ELSE xin[1], Size(node.packed))
                       \o Zeros(kQRegSizeInBytes - Size(node.packed))
  /\ SetScalarsAccepted /\ node.in0Zero /\ (Emitted \/ pc = "emit_fatal") =>
        /\ emitted.code = <<Ins("Movi", 1, loc.out.r, 0, 0, 0)>>
        /\ \A r \in emitted.reads : r[1] # "in"

\* A node the planner accepted is emitted without LOG(FATAL).
SetScalarsCompletes == SetScalarsAccepted => pc # "emit_fatal"

\* C27: set-scalars.  For every packed type the planner accepts, after the
\* emitted code lane 0 of the output is the scalar input and every other lane
\* is zero; for a zero bit pattern only the zeroing instruction is emitted
\* and input 0 is not read; and for a non-zero input of an accepted type the
\* emitter completes without LOG(FATAL).
C27_SetScalars == SetScalarsResult /\ SetScalarsCompletes

\* ------------------------------------------------------------------------
\* Scratch registers inside the compressed string load.

StringLoadEmitted ==
  /\ Emitted /\ node.kind = "VecLoad" /\ node.isStringCharAt
  /\ node.packed \in {"Uint16", "Int16"}

\* The general-purpose registers instruction ins reads and writes.
XReads(ins) ==
  CASE ins.op \in {"LdrW", "LdrD", "LdrQ", "StrQ", "Tbnz"} -> {ins.rn}
    [] ins.op = "AddLsl" -> {ins.rn, ins.rm}
    [] OTHER -> {}

XWrites(ins) == IF ins.op \in {"LdrW", "AddLsl"} THEN {ins.rd} ELSE {}

\* The first k calls made on the scope.
Calls(k) == SubSeq(emitted.scope, 1, k)

\* How many registers the routine holds after calls: acquires less releases.
HeldCount(calls) ==
  Cardinality({k \in 1..Len(calls) : calls[k].ev = "acquire"})
  - Cardinality({k \in 1..Len(calls) : calls[k].ev = "release"})

\* The general-purpose registers taken from the scratch list after calls.
Held(calls) == emitted.entry.x \ ScopeAvail(emitted.entry, calls).x

\* The calls made before instruction j was emitted.
CallsBefore(j) == SelectSeq(emitted.scope, LAMBDA e : e.at < j)

\* At most one register is held after every call, and a released register
\* was held.
OneScratchHeld ==
  \A k \in 1..Len(emitted.scope) :
    /\ HeldCount(Calls(k)) <= 1
    /\ emitted.scope[k].ev = "release" => emitted.scope[k].r \in Held(Calls(k - 1))
    /\ emitted.scope[k].ev = "acquire" => emitted.scope[k].r \notin Held(Calls(k - 1))

\* Every scratch register an instruction reads was held when the instruction
\* was emitted.
ReadsWhileHeld ==
  \A j \in 1..Len(emitted.code) :
    XReads(emitted.code[j]) \cap ScratchPool \subseteq Held(CallsBefore(j))

\* On the path the run took, every scratch register an instruction read was
\* written earlier on the path, with no Release of it between the emission
\* of the last such write and that of the read.
ReadsAfterWrite ==
  \A p \in 1..Len(trace) :
    \A r \in XReads(emitted.code[trace[p]]) \cap ScratchPool :
      LET writes == {q \in 1 .. p - 1 : r \in XWrites(emitted.code[trace[q]])}
      IN  /\ writes # {}
          /\ LET w == trace[CHOOSE q \in writes : \A q2 \in writes : q2 <= q]
             IN  \A k \in 1..Len(emitted.scope) :
                   LET e == emitted.scope[k]
                   IN  ~(e.ev = "release" /\ e.r = r /\ w <= e.at /\ e.at < trace[p])

\* C28: scratch registers inside the compressed string load.  The routine
\* holds at most one general-purpose scratch register at any point (the
\* length is released before the compressed path's address scratch is
\* acquired, and that one, if acquired, before the uncompressed path's); it
\* releases only a register it holds; and no instruction reads a scratch
\* register after its release and before it is rewritten on the same
\* run-time path.
C28_ScratchDiscipline ==
  StringLoadEmitted => OneScratchHeld /\ ReadsWhileHeld /\ ReadsAfterWrite

\* The uncompressed path ran with the index in a register: the length and
\* both address scratches were acquired, and the load read the second.
C28_Witness ==
  /\ StringLoadEmitted /\ pc = "done"
  /\ Len(emitted.scope) = 5
  /\ \E p \in 1..Len(trace) :
       /\ emitted.code[trace[p]].op = "LdrQ"
       /\ emitted.code[trace[p]].rn \in ScratchPool

\* ------------------------------------------------------------------------
\* What an aborting emission routine has emitted.

\* What the emission routine of the node's kind does with the node, reached
\* or not (which case it takes does not depend on the summary's registers).
Routine == InstructionCodeGenerator_Visit(node, loc, cg)

ZeroingMovi == <<Ins("Movi", 1, loc.out.r, 0, 0, 0)>>

DotFallbackRunning ==
  /\ node.kind = "VecDotProd" /\ Size(node.aType) = 1
  /\ ~ShouldEmitDotProductInstructions(cg)
  /\ pc \in {"running", "done"}

\* The product of byte lanes k of a and b as a number, the lanes read as the
\* variant reads them (unsigned when zero-extending).
ExactProduct(k) ==
  Val(~node.zeroExt, Lane(vin[2], 1, k)) * Val(~node.zeroExt, Lane(vin[3], 1, k))

\* The products added to accumulator lane i when the next instruction to run
\* is instruction ip of the sequence.
AddedSoFar(i) ==
  (IF ip >= 3 THEN ExactProduct(i) ELSE 0)
  + (IF ip >= 4 THEN ExactProduct(i + 4) ELSE 0)
  + (IF ip >= 6 THEN ExactProduct(i + 8) ELSE 0)
  + (IF ip >= 7 THEN ExactProduct(i + 12) ELSE 0)

\* C30: no intermediate overflow in the dot product's portable sequence.
\* After each widening multiply, every 16-bit lane of the temporary, read
\* with the variant's signedness, is the exact product of its two byte
\* lanes; after each widening add, every 32-bit accumulator lane is its value
\* before the node plus the exact products added so far, modulo 2^32 and
\* nothing less.
C30_NoIntermediateOverflow ==
  DotFallbackRunning =>
    /\ ip >= 2 =>
         \A i \in LaneIdx(2) :
           Val(~node.zeroExt, Lane(V[GetTemp(loc, 0)], 2, i))
             = ExactProduct(IF ip >= 5 THEN i + 8 ELSE i)
    /\ \A i \in LaneIdx(4) :
         Lane(V[AccReg], 4, i) = AddB(Lane(vin[1], 4, i), FromInt(AddedSoFar(i), 4))

\* The unsigned sequence has added a product that does not fit a signed
\* 16-bit lane.
C30_Witness ==
  /\ DotFallbackRunning /\ node.zeroExt /\ ip = 4
  /\ ExactProduct(4) > 32767

=============================================================================
